---- MODULE Spec2Model ----
(***************************************************************************)
(* A model of launchdarkly-audit: the flag model (models.py), the          *)
(* staleness classifier (flag_service.py), the primary-environment         *)
(* resolver (cli.py), the parsing of the flags payload (api_client.py),    *)
(* the codebase scanner (file_search.py), the file cache (cache.py), the   *)
(* fetch of the flags through the cache (api_client.py, cli.py), the scan  *)
(* command and the OFF/ON-splitting filter (cli.py).                       *)
(*                                                                         *)
(* Python values are represented as follows.                               *)
(*   - a dict is a function whose DOMAIN is the set of keys present; a     *)
(*     dict whose insertion order is observable (the `environments`        *)
(*     mapping) is a sequence of entries with pairwise distinct names, in  *)
(*     insertion order;                                                    *)
(*   - an optional value is None (the empty sequence) or Some(v) (the      *)
(*     one-element sequence <<v>>);                                        *)
(*   - a naive datetime is the number of microseconds since the epoch, a   *)
(*     timedelta a number of microseconds.                                 *)
(***************************************************************************)
EXTENDS Integers, Sequences, FiniteSets, TLC

---------------------------------------------------------------------------
(* Python helpers *)

None == <<>>
Some(v) == <<v>>

\* the outcome of a call: a returned value or a raised exception
Return(v) == [ok |-> TRUE, value |-> v]
Raise(e) == [ok |-> FALSE, error |-> e]

\* the empty dict
EmptyDict == <<>>

\* dict.get(k, default)
Get(d, k, default) == IF k \in DOMAIN d THEN d[k] ELSE default

\* x in list
InList(x, s) == \E i \in 1..Len(s) : s[i] = x

\* truthiness of an optional list argument: None and [] are both falsy
Truthy(opt) == opt /= None /\ opt[1] /= <<>>

---------------------------------------------------------------------------
(* Time *)

\* config.py: one "month" is 30 days
DAYS_PER_MONTH == 30

\* models.py divides the millisecond epoch by 1000.0 and fromtimestamp keeps
\* microseconds: one millisecond is 1000 datetime ticks.
MicrosPerMilli == 1000

\* The length of a day in datetime ticks.  Python's value (86 400 000 000)
\* is scaled down so that the instants of the model stay small; the
\* classifier only compares instants, so the scale is a bound of the model.
MicrosPerDay == 100

\* datetime.timedelta(days=d)
timedelta_days(d) == d * MicrosPerDay

\* datetime.datetime.fromtimestamp(ms / 1000.0)
fromtimestamp_ms(ms) == ms * MicrosPerMilli

---------------------------------------------------------------------------
(* models.py: Maintainer, Environment, Flag *)

Maintainer(first_name, last_name, email) ==
    [first_name |-> first_name, last_name |-> last_name, email |-> email]

Environment(name, is_on, last_modified) ==
    [name |-> name, is_on |-> is_on, last_modified |-> last_modified]

Flag(key, name, archived, temporary, creation_date, maintainer, environments) ==
    [key |-> key, name |-> name, archived |-> archived, temporary |-> temporary,
     creation_date |-> creation_date, maintainer |-> maintainer,
     environments |-> environments]

\* Maintainer.from_dict
Maintainer_from_dict(data) ==
    Maintainer(Get(data, "firstName", "Unknown"),
               Get(data, "lastName", None),
               Get(data, "email", None))

\* Environment.from_dict
Environment_from_dict(name, data) ==
    LET last_modified_ms == Get(data, "lastModified", 0)
    IN  Environment(name, Get(data, "on", FALSE), fromtimestamp_ms(last_modified_ms))

\* a plausible slip: every optional field read with data[...] like `key`
Flag_from_dict_strict(data) ==
    IF {"key", "name"} \subseteq DOMAIN data
    THEN LET environments_data == Get(data, "environments", <<>>)
         IN  Return(Flag(data["key"], data["name"],
                         Get(data, "archived", FALSE),
                         Get(data, "temporary", FALSE),
                         fromtimestamp_ms(Get(data, "creationDate", 0)),
                         Maintainer_from_dict(Get(data, "_maintainer", EmptyDict)),
                         [i \in 1..Len(environments_data) |->
                             Environment_from_dict(environments_data[i].name,
                                                   environments_data[i].data)]))
    ELSE Raise("KeyError")

\* Flag.from_dict: the `environments` dict is a sequence of (name, data)
\* entries in insertion order, which the dict comprehension keeps
Flag_from_dict(data) ==
    LET creation_date_ms == Get(data, "creationDate", 0)
        creation_date == fromtimestamp_ms(creation_date_ms)
        maintainer_data == Get(data, "_maintainer", EmptyDict)
        maintainer == Maintainer_from_dict(maintainer_data)
        environments_data == Get(data, "environments", <<>>)
        environments == [i \in 1..Len(environments_data) |->
                            Environment_from_dict(environments_data[i].name,
                                                  environments_data[i].data)]
    IN  IF "key" \in DOMAIN data
        THEN Return(Flag(data["key"],
                         Get(data, "name", ""),
                         Get(data, "archived", FALSE),
                         Get(data, "temporary", FALSE),
                         creation_date, maintainer, environments))
        ELSE Raise("KeyError")

\* a plausible slip: min instead of max
MinLastModified(envs) ==
    CHOOSE t \in {envs[i].last_modified : i \in 1..Len(envs)} :
        \A i \in 1..Len(envs) : envs[i].last_modified >= t

\* max(env.last_modified for env in environments.values())
MaxLastModified(envs) ==
    CHOOSE t \in {envs[i].last_modified : i \in 1..Len(envs)} :
        \A i \in 1..Len(envs) : envs[i].last_modified <= t

\* Flag.most_recent_modification
most_recent_modification(flag) ==
    IF flag.environments = <<>>
    THEN None
    ELSE Some(MaxLastModified(flag.environments))

\* a plausible slip: "any environment is stale" instead of "all are"
is_inactive_since_any(flag, threshold) ==
    IF flag.environments = <<>>
    THEN TRUE
    ELSE \E i \in 1..Len(flag.environments) :
            flag.environments[i].last_modified < threshold

\* a plausible slip: flags without environments are skipped, as the older
\* dictionary-based filter did
is_inactive_since_nonempty(flag, threshold) ==
    IF flag.environments = <<>>
    THEN FALSE
    ELSE \A i \in 1..Len(flag.environments) :
            flag.environments[i].last_modified < threshold

\* Flag.is_inactive_since
is_inactive_since(flag, threshold) ==
    IF flag.environments = <<>>
    THEN TRUE
    ELSE \A i \in 1..Len(flag.environments) :
            flag.environments[i].last_modified < threshold

---------------------------------------------------------------------------
(* flag_service.py: FlagService.  A list comprehension
   [flag for flag in flags if keep] is SelectSeq(flags, Keep). *)

\* a plausible slip: a loop that stops at the first flag it rejects (break
\* for continue) instead of skipping it
filter_by_archived_until_rejected(flags, archived) ==
    LET rejected == {i \in 1..Len(flags) : flags[i].archived /= archived}
    IN  IF rejected = {}
        THEN flags
        ELSE SubSeq(flags, 1, (CHOOSE i \in rejected : \A j \in rejected : i <= j) - 1)

filter_by_archived(flags, archived) ==
    LET Keep(flag) == flag.archived = archived
    IN  SelectSeq(flags, Keep)

\* a plausible slip: the kept flags collected at the front (insert(0, flag)
\* for append), which reverses them
filter_by_temporary_reversed(flags, temporary) ==
    LET Keep(flag) == flag.temporary = temporary
        kept == SelectSeq(flags, Keep)
    IN  [i \in 1..Len(kept) |-> kept[Len(kept) + 1 - i]]

filter_by_temporary(flags, temporary) ==
    LET Keep(flag) == flag.temporary = temporary
    IN  SelectSeq(flags, Keep)

\* a plausible slip: the ON/OFF filter of the older revision creeping back
filter_by_inactivity_off_only(flags, threshold) ==
    LET Keep(flag) == /\ is_inactive_since(flag, threshold)
                      /\ \A i \in 1..Len(flag.environments) :
                            ~flag.environments[i].is_on
    IN  SelectSeq(flags, Keep)

filter_by_inactivity(flags, threshold) ==
    LET Keep(flag) == is_inactive_since(flag, threshold)
    IN  SelectSeq(flags, Keep)

\* lower-casing of the names the model uses (str.lower)
Lower(s) == CASE s = "Alice" -> "alice"
              [] s = "Bob" -> "bob"
              [] OTHER -> s

\* a plausible slip: a case-insensitive match
filter_by_maintainer_caseless(flags, maintainer_names) ==
    LET Keep(flag) == \E i \in 1..Len(maintainer_names) :
                         Lower(maintainer_names[i]) = Lower(flag.maintainer.first_name)
    IN  SelectSeq(flags, Keep)

filter_by_maintainer(flags, maintainer_names) ==
    LET Keep(flag) == InList(flag.maintainer.first_name, maintainer_names)
    IN  SelectSeq(flags, Keep)

\* a plausible slip: only the first key of the exclude list is honoured
filter_by_exclude_list_first(flags, exclude_keys) ==
    LET Keep(flag) == exclude_keys = <<>> \/ flag.key /= exclude_keys[1]
    IN  SelectSeq(flags, Keep)

filter_by_exclude_list(flags, exclude_keys) ==
    LET Keep(flag) == ~InList(flag.key, exclude_keys)
    IN  SelectSeq(flags, Keep)

\* the threshold of get_inactive_flags: now - timedelta(days=months * 30)
modified_before(now, months) == now - timedelta_days(months * DAYS_PER_MONTH)

\* FlagService.get_inactive_flags; `now` is the value datetime.now() returns
get_inactive_flags(flags, months, maintainers, exclude_list, now) ==
    LET r1 == filter_by_archived(flags, FALSE)
        r2 == filter_by_temporary(r1, TRUE)
        r3 == filter_by_inactivity(r2, modified_before(now, months))
        r4 == IF Truthy(maintainers)
              THEN filter_by_maintainer(r3, maintainers[1])
              ELSE r3
        r5 == IF Truthy(exclude_list)
              THEN filter_by_exclude_list(r4, exclude_list[1])
              ELSE r4
    IN  r5

---------------------------------------------------------------------------
(* cli.py: the primary-environment resolver, on raw flag dictionaries *)

\* the keys of an `environments` dict, in insertion order
EnvKeys(environments) == [i \in 1..Len(environments) |-> environments[i].name]

\* a plausible slip: the loops swapped, the flag's environments scanned
\* first and the first one that is preferred at all returned
get_primary_env_by_payload_order(flag, env_order) ==
    LET environments == Get(flag, "environments", <<>>)
        names == EnvKeys(environments)
        hits == {i \in 1..Len(names) : InList(names[i], env_order)}
    IN  IF environments = <<>>
        THEN IF env_order /= <<>> THEN env_order[1] ELSE "production"
        ELSE IF hits /= {}
             THEN names[CHOOSE i \in hits : \A j \in hits : i <= j]
             ELSE names[1]

\* get_primary_env(flag, env_order)
get_primary_env(flag, env_order) ==
    LET environments == Get(flag, "environments", <<>>)
        names == EnvKeys(environments)
        hits == {i \in 1..Len(env_order) : InList(env_order[i], names)}
    IN  IF environments = <<>>
        THEN IF env_order /= <<>> THEN env_order[1] ELSE "production"
        ELSE IF hits /= {}
             THEN env_order[CHOOSE i \in hits : \A j \in hits : i <= j]
             ELSE names[1]

---------------------------------------------------------------------------
(* api_client.py: LaunchDarklyClient._parse_flags_response *)

\* JSON values the `items` member of a response can hold
JList(v) == [kind |-> "list", list |-> v]
JObject(keys) == [kind |-> "object", keys |-> keys]
JString(chars) == [kind |-> "string", chars |-> chars]
JNumber(n) == [kind |-> "number", number |-> n]
JNull == [kind |-> "null"]

\* [Flag.from_dict(item) for item in items] over a list of dictionaries: the
\* first item that raises ends the comprehension
ParseItems(items) ==
    LET parsed == [i \in 1..Len(items) |-> Flag_from_dict(items[i])]
    IN  IF \E i \in 1..Len(items) : ~parsed[i].ok
        THEN Raise("KeyError")
        ELSE Return([i \in 1..Len(items) |-> parsed[i].value])

\* the comprehension over whatever `items` holds: a list yields its items;
\* a string yields its characters and an object its keys, on which
\* Flag.from_dict raises AttributeError; null and numbers are not iterable
ParseAny(items) ==
    CASE items.kind = "list" -> ParseItems(items.list)
      [] items.kind = "string" ->
            IF items.chars = <<>> THEN Return(<<>>) ELSE Raise("AttributeError")
      [] items.kind = "object" ->
            IF items.keys = <<>> THEN Return(<<>>) ELSE Raise("AttributeError")
      [] OTHER -> Raise("TypeError")

\* LaunchDarklyClient._parse_flags_response
parse_flags_response(data) ==
    ParseAny(Get(data, "items", JList(<<>>)))

---------------------------------------------------------------------------
(* The state *)

VARIABLES
    data,       \* the raw (JSON) input of the operation, when it takes one
    flags,      \* the list of Flag objects handed to the classifier
    op,         \* the operation that ran last ("none" before the first call)
    args,       \* the arguments of that call
    result,     \* what it returned
    log         \* the calls made so far on the file system or on the cache

vars == <<data, flags, op, args, result, log>>

NoData == <<>>
NoArgs == <<>>
NoResult == <<>>
NoLog == <<>>

---------------------------------------------------------------------------
(* Inputs of the classifier *)

\* flag keys are unique within a project
FlagKeys == {"flag-a", "flag-b"}
FirstNames == {"Alice", "alice"}

\* lastModified values of the payload, in milliseconds
LastModifiedMs == {4, 7}

\* the value of datetime.now() at the call
Nows == {fromtimestamp_ms(7)}

\* the largest value of `months`
MaxMonths == 2

Months == -1..MaxMonths

\* sequences of length <= n over S
SeqsUpTo(S, n) == UNION {[1..k -> S] : k \in 0..n}

\* sequences without repeated elements
Injective(s) == \A i, j \in 1..Len(s) : i /= j => s[i] /= s[j]

\* the environments of a flag: none, production, or production and dev
ClassifierEnvironments ==
    {<<>>}
    \cup {<<Environment("production", o, fromtimestamp_ms(t))>> :
            o \in BOOLEAN, t \in LastModifiedMs}
    \cup {<<Environment("production", o, fromtimestamp_ms(t1)),
            Environment("dev", FALSE, fromtimestamp_ms(t2))>> :
            o \in BOOLEAN, t1 \in LastModifiedMs, t2 \in LastModifiedMs}

ClassifierFlags ==
    {Flag(k, "", a, t, 0, Maintainer(m, None, None), e) :
        k \in FlagKeys, a \in BOOLEAN, t \in BOOLEAN, m \in FirstNames,
        e \in ClassifierEnvironments}

\* flag lists: every key at most once, in any order
FlagLists ==
    {fl \in SeqsUpTo(ClassifierFlags, Cardinality(FlagKeys)) :
        Injective([i \in 1..Len(fl) |-> fl[i].key])}

MaintainerArgs == {None, Some(<<>>), Some(<<"Alice">>), Some(<<"Bob", "alice">>)}
ExcludeArgs == {None, Some(<<>>), Some(<<"flag-a">>), Some(<<"flag-c", "flag-b">>)}

---------------------------------------------------------------------------
(* The classifier as a state machine *)

InitClassifier ==
    /\ flags \in FlagLists
    /\ data = NoData
    /\ op = "none"
    /\ args = NoArgs
    /\ result = NoResult
    /\ log = NoLog

\* FlagService.get_inactive_flags(flags, months, maintainers, exclude_list).
\* The service is stateless: a behaviour is one call on the given list.
CallGetInactiveFlags ==
    \E months \in Months, maintainers \in MaintainerArgs,
       exclude_list \in ExcludeArgs, now \in Nows :
        /\ op = "none"
        /\ op' = "get_inactive_flags"
        /\ args' = [months |-> months, maintainers |-> maintainers,
                    exclude_list |-> exclude_list, now |-> now]
        /\ result' = get_inactive_flags(flags, months, maintainers, exclude_list, now)
        /\ UNCHANGED <<data, flags, log>>

NextClassifier == CallGetInactiveFlags

SpecClassifier == InitClassifier /\ [][NextClassifier]_vars

---------------------------------------------------------------------------
(* Vocabulary of the properties of the classifier *)

Elems(s) == {s[i] : i \in 1..Len(s)}

Called == op = "get_inactive_flags"

\* threshold = now - months * 30 days
Threshold == args.now - args.months * 30 * MicrosPerDay

\* every environment was last modified strictly before the instant t
AllBefore(flag, t) ==
    \A e \in Elems(flag.environments) : e.last_modified < t

Gated(flag) == flag.archived = FALSE /\ flag.temporary = TRUE

\* the names and keys an optional list argument holds
Members(opt) == IF opt = None THEN {} ELSE Elems(opt[1])

Keys(fl) == [i \in 1..Len(fl) |-> fl[i].key]

\* C1: called without maintainers and exclude, get_inactive_flags returns a
\* flag that has at least one environment if and only if it is not archived,
\* is temporary, and every one of its environments was last modified strictly
\* before threshold = now - months * 30 days.
C1_InactiveIffAllEnvironmentsStale ==
    (Called /\ args.maintainers = None /\ args.exclude_list = None) =>
        \A f \in Elems(flags) :
            f.environments /= <<>> =>
                (f \in Elems(result) <=> (Gated(f) /\ AllBefore(f, Threshold)))

\* a gated flag with one stale environment and one modified exactly at the
\* threshold was left out
C1_Witness ==
    /\ Called /\ args.maintainers = None /\ args.exclude_list = None
    /\ \E f \in Elems(flags) :
        /\ Gated(f) /\ Len(f.environments) = 2
        /\ f.environments[1].last_modified < Threshold
        /\ f.environments[2].last_modified = Threshold
        /\ f \notin Elems(result)
    /\ \E f \in Elems(flags) :
        f.environments /= <<>> /\ f \in Elems(result)

\* C2: a non-archived, temporary flag without environments is returned for
\* every value of months (zero, positive or negative) when no maintainer or
\* exclude filter narrows the result.
C2_NoEnvironmentsAlwaysInactive ==
    (Called /\ ~Truthy(args.maintainers) /\ ~Truthy(args.exclude_list)) =>
        \A f \in Elems(flags) :
            (Gated(f) /\ f.environments = <<>>) => f \in Elems(result)

\* such a flag was returned by a call with a negative months, whose
\* threshold lies in the future
C2_Witness ==
    /\ Called /\ ~Truthy(args.maintainers) /\ ~Truthy(args.exclude_list)
    /\ args.months < 0
    /\ \E f \in Elems(flags) :
        Gated(f) /\ f.environments = <<>> /\ f \in Elems(result)

\* the flag is inactive for the threshold of the call
Stale(flag) == flag.environments = <<>> \/ AllBefore(flag, Threshold)

NotExcluded(flag) ==
    ~Truthy(args.exclude_list) \/ flag.key \notin Members(args.exclude_list)

\* C3: with maintainers omitted or empty the result holds the inactive flags
\* of every maintainer; with a non-empty list it holds exactly the inactive
\* flags whose maintainer first name is, as a string, an element of the list.
C3_MaintainerFilter ==
    Called =>
        /\ ~Truthy(args.maintainers) =>
            \A f \in Elems(flags) :
                (Gated(f) /\ Stale(f) /\ NotExcluded(f)) => f \in Elems(result)
        /\ Truthy(args.maintainers) =>
            \A f \in Elems(flags) :
                f \in Elems(result) <=>
                    /\ Gated(f) /\ Stale(f) /\ NotExcluded(f)
                    /\ f.maintainer.first_name \in Members(args.maintainers)

\* of two inactive flags, Alice's was returned and alice's was not
C3_Witness ==
    /\ Called /\ args.maintainers = Some(<<"Alice">>)
    /\ \E f, g \in Elems(flags) :
        /\ Gated(f) /\ Stale(f) /\ NotExcluded(f)
        /\ Gated(g) /\ Stale(g) /\ NotExcluded(g)
        /\ f.maintainer.first_name = "Alice" /\ f \in Elems(result)
        /\ g.maintainer.first_name = "alice" /\ g \notin Elems(result)

\* the pipeline of get_inactive_flags with the exclude stage moved before
\* the maintainer stage
ExcludeBeforeMaintainer ==
    LET r3 == filter_by_inactivity(
                  filter_by_temporary(filter_by_archived(flags, FALSE), TRUE),
                  modified_before(args.now, args.months))
        r4 == IF Truthy(args.exclude_list)
              THEN filter_by_exclude_list(r3, args.exclude_list[1])
              ELSE r3
    IN  IF Truthy(args.maintainers)
        THEN filter_by_maintainer(r4, args.maintainers[1])
        ELSE r4

\* C4: the result holds no flag whose key is in exclude, holds every flag
\* with a key outside exclude that the same call without exclude returns,
\* and is the same when the exclude stage runs before the maintainer stage.
C4_ExcludeSubtractsAndCommutes ==
    Called =>
        LET without == get_inactive_flags(flags, args.months, args.maintainers,
                                          None, args.now)
        IN  /\ \A f \in Elems(result) : f.key \notin Members(args.exclude_list)
            /\ \A f \in Elems(without) :
                f.key \notin Members(args.exclude_list) => f \in Elems(result)
            /\ ExcludeBeforeMaintainer = result

\* a call with both filters dropped one flag by its key and kept another
C4_Witness ==
    /\ Called /\ Truthy(args.maintainers)
    /\ Truthy(args.exclude_list) /\ Len(args.exclude_list[1]) = 2
    /\ Len(result) = 1
    /\ Len(get_inactive_flags(flags, args.months, args.maintainers,
                              None, args.now)) = 2

\* the environments envs with the is_on values the mask m gives by name
WithOn(envs, m) ==
    [j \in 1..Len(envs) |-> [envs[j] EXCEPT !.is_on = m[envs[j].name]]]

\* the flag lists that differ from fl in is_on values only
OnVariants(fl) ==
    {[i \in 1..Len(fl) |->
        [fl[i] EXCEPT !.environments = WithOn(fl[i].environments, m[i])]] :
     m \in [1..Len(fl) -> [{"production", "dev"} -> BOOLEAN]]}

\* C5: two flag lists that differ only in the is_on values of their
\* environments yield, for the same arguments, results with the same flag
\* keys in the same order.
C5_ToggleStateIsIgnored ==
    Called =>
        \A other \in OnVariants(flags) :
            Keys(get_inactive_flags(other, args.months, args.maintainers,
                                    args.exclude_list, args.now)) = Keys(result)

\* two flags were returned, one of them ON in production and the other OFF
C5_Witness ==
    /\ Called /\ Len(result) = 2
    /\ result[1].environments /= <<>> /\ result[1].environments[1].is_on
    /\ result[2].environments /= <<>> /\ ~result[2].environments[1].is_on

---------------------------------------------------------------------------
(* The resolver as a state machine *)

\* the most environments a raw flag holds, the longest preference order
MaxEnvs == 2
MaxOrder == 2

ResolverEnvNames == {"production", "staging", "zeta", "alpha"}
PreferenceNames == {"production", "staging", "dev"}

\* one entry of a raw `environments` dict
Entry(name, env_data) == [name |-> name, data |-> env_data]

\* raw `environments` dicts: distinct names in any insertion order
ResolverEnvironments ==
    {e \in SeqsUpTo({Entry(n, [on |-> FALSE, lastModified |-> 4]) :
                        n \in ResolverEnvNames}, MaxEnvs) :
        Injective(EnvKeys(e))}

\* raw flags, with and without the `environments` member
ResolverFlags ==
    {[key |-> "flag-a"]}
    \cup {[key |-> "flag-a", environments |-> e] : e \in ResolverEnvironments}

InitResolver ==
    /\ data \in ResolverFlags
    /\ flags = <<>>
    /\ op = "none"
    /\ args = NoArgs
    /\ result = NoResult
    /\ log = NoLog

\* get_primary_env(flag, env_order) on the raw flag `data`
CallGetPrimaryEnv ==
    \E env_order \in SeqsUpTo(PreferenceNames, MaxOrder) :
        /\ op = "none"
        /\ op' = "get_primary_env"
        /\ args' = [env_order |-> env_order]
        /\ result' = get_primary_env(data, env_order)
        /\ UNCHANGED <<data, flags, log>>

NextResolver == CallGetPrimaryEnv

SpecResolver == InitResolver /\ [][NextResolver]_vars

CalledResolver == op = "get_primary_env"

\* the environment names of the raw flag
EnvNamesOf(flag) == Elems(EnvKeys(Get(flag, "environments", <<>>)))

\* C6: get_primary_env returns the first name of env_order, in list order,
\* that is a key of the flag's environments whenever there is one; for a flag
\* without environments it returns env_order[0], or "production" when
\* env_order is empty.
C6_FirstPreferredEnvironment ==
    CalledResolver =>
        LET order == args.env_order
            names == EnvNamesOf(data)
        IN  /\ (\E i \in 1..Len(order) : order[i] \in names) =>
                \E i \in 1..Len(order) :
                    /\ result = order[i]
                    /\ order[i] \in names
                    /\ \A j \in 1..(i - 1) : order[j] \notin names
            /\ names = {} =>
                result = IF order /= <<>> THEN order[1] ELSE "production"

\* both environments are preferred, the payload lists them in the opposite
\* order, and the preference order won
C6_Witness ==
    /\ CalledResolver
    /\ Len(args.env_order) = 2
    /\ "environments" \in DOMAIN data
    /\ EnvKeys(data["environments"]) = <<args.env_order[2], args.env_order[1]>>
    /\ args.env_order[1] /= args.env_order[2]
    /\ result = args.env_order[1]

\* the names of the model in lexicographic (code point) order
LexOrder == <<"alpha", "dev", "production", "staging", "zeta">>
LexIndex(n) == CHOOSE i \in 1..Len(LexOrder) : LexOrder[i] = n
LexLowest(S) == CHOOSE n \in S : \A m \in S : LexIndex(n) <= LexIndex(m)

\* C7: when a flag has at least one environment and none of the preferred
\* names is among them, the resolver returns the lexicographically lowest
\* environment name of the flag, whatever the order of the payload.
C7_FallbackIsLexicographicallyLowest ==
    CalledResolver =>
        LET names == EnvNamesOf(data)
        IN  (names /= {} /\ \A i \in 1..Len(args.env_order) :
                                args.env_order[i] \notin names)
                => result = LexLowest(names)

---------------------------------------------------------------------------
(* The flag model as a state machine *)

ModelEnvNames == <<"production", "dev", "staging">>

\* raw environment dictionaries, each member present or missing
RawEnvDatas ==
    {EmptyDict, [on |-> TRUE]}
    \cup {[lastModified |-> t] : t \in LastModifiedMs}
    \cup {[on |-> TRUE, lastModified |-> t] : t \in LastModifiedMs}

\* raw `environments` dicts of up to MaxEnvs entries
RawEnvironments ==
    UNION {{[i \in 1..k |-> Entry(ModelEnvNames[i], d[i])] :
                d \in [1..k -> RawEnvDatas]} : k \in 0..MaxEnvs}

RawMaintainers == {EmptyDict, [firstName |-> "Alice"]}

\* the members of a raw flag
ItemFields == {"key", "name", "archived", "temporary", "creationDate",
               "_maintainer", "environments"}

\* raw flags: every member present or missing
RawFlags ==
    {[f \in D |-> full[f]] :
        D \in SUBSET ItemFields,
        full \in {[key |-> "flag-a", name |-> "Flag A", archived |-> TRUE,
                   temporary |-> TRUE, creationDate |-> 5,
                   _maintainer |-> m, environments |-> e] :
                     m \in RawMaintainers, e \in RawEnvironments}}

InitFlag ==
    /\ data \in RawFlags
    /\ flags = <<>>
    /\ op = "none"
    /\ args = NoArgs
    /\ result = NoResult
    /\ log = NoLog

\* Flag.from_dict(data); the Flag it builds is kept in `flags`
CallFromDict ==
    /\ op = "none"
    /\ op' = "from_dict"
    /\ result' = Flag_from_dict(data)
    /\ flags' = IF result'.ok THEN <<result'.value>> ELSE <<>>
    /\ UNCHANGED <<data, args, log>>

\* flag.most_recent_modification on the Flag just built
CallMostRecentModification ==
    /\ op = "from_dict"
    /\ flags /= <<>>
    /\ op' = "most_recent_modification"
    /\ result' = most_recent_modification(flags[1])
    /\ UNCHANGED <<data, flags, args, log>>

NextFlag == CallFromDict \/ CallMostRecentModification

SpecFlag == InitFlag /\ [][NextFlag]_vars

\* C8: Flag.from_dict fails if and only if the payload lacks `key`; every
\* other missing member takes its default: name "", archived and temporary
\* false, no environments, maintainer first name "Unknown", creation date
\* the epoch, and a missing lastModified the epoch, which is older than every
\* later threshold.
C8_OnlyKeyIsRequired ==
    op = "from_dict" =>
        /\ ~result.ok <=> "key" \notin DOMAIN data
        /\ result.ok =>
            LET flag == result.value
            IN  /\ flag.key = data["key"]
                /\ "name" \notin DOMAIN data => flag.name = ""
                /\ "archived" \notin DOMAIN data => flag.archived = FALSE
                /\ "temporary" \notin DOMAIN data => flag.temporary = FALSE
                /\ "creationDate" \notin DOMAIN data => flag.creation_date = 0
                /\ "environments" \notin DOMAIN data => flag.environments = <<>>
                /\ "_maintainer" \notin DOMAIN data =>
                        flag.maintainer.first_name = "Unknown"
                /\ ("_maintainer" \in DOMAIN data
                        /\ "firstName" \notin DOMAIN data["_maintainer"]) =>
                        flag.maintainer.first_name = "Unknown"
                /\ "environments" \in DOMAIN data =>
                    /\ Len(flag.environments) = Len(data["environments"])
                    /\ \A i \in 1..Len(data["environments"]) :
                        "lastModified" \notin DOMAIN data["environments"][i].data =>
                            /\ flag.environments[i].last_modified = 0
                            /\ \A t \in 1..fromtimestamp_ms(1) :
                                flag.environments[i].last_modified < t

\* a payload that holds `key` and one environment without lastModified, and
\* nothing else, was parsed
C8_Witness ==
    /\ op = "from_dict"
    /\ DOMAIN data = {"key", "environments"}
    /\ Len(data["environments"]) = 1
    /\ "lastModified" \notin DOMAIN data["environments"][1].data
    /\ result.ok
    /\ result.value.name = ""
    /\ result.value.maintainer.first_name = "Unknown"
    /\ result.value.environments[1].last_modified = 0

\* C10: most_recent_modification is None if and only if the flag has no
\* environments; otherwise it is the last_modified of some environment and
\* no environment has a later one.
C10_MostRecentIsMaximum ==
    op = "most_recent_modification" =>
        LET envs == flags[1].environments
        IN  /\ result = None <=> envs = <<>>
            /\ envs /= <<>> =>
                /\ \E i \in 1..Len(envs) : envs[i].last_modified = result[1]
                /\ \A i \in 1..Len(envs) : envs[i].last_modified <= result[1]

\* the first of two environments is the later one and was returned
C10_Witness ==
    /\ op = "most_recent_modification"
    /\ Len(flags[1].environments) = 2
    /\ flags[1].environments[1].last_modified > flags[1].environments[2].last_modified
    /\ flags[1].environments[2].last_modified > 0
    /\ result = Some(flags[1].environments[1].last_modified)

---------------------------------------------------------------------------
(* The parsing of a response as a state machine *)

\* the longest `items` list
MaxItems == 2

\* raw flags of a response; the last one lacks `key`
PayloadItems ==
    {[key |-> "flag-a"],
     [key |-> "flag-b", temporary |-> TRUE],
     [key |-> "flag-b", temporary |-> TRUE, archived |-> TRUE,
      environments |-> <<Entry("production", [on |-> TRUE, lastModified |-> 4])>>],
     [key |-> "flag-c", name |-> "Flag C", _maintainer |-> [firstName |-> "Alice"],
      environments |-> <<Entry("production", EmptyDict), Entry("dev", [on |-> TRUE])>>],
     [name |-> "no key", temporary |-> TRUE]}

\* what the `items` member can hold
ItemsValues ==
    {JNull, JNumber(0), JString(<<>>), JString(<<"a", "b">>),
     JObject(<<>>), JObject(<<"key">>)}
    \cup {JList(l) : l \in SeqsUpTo(PayloadItems, MaxItems)}

\* responses with and without the `items` member
Payloads ==
    {EmptyDict, [totalCount |-> 0]}
    \cup {[items |-> v] : v \in ItemsValues}
    \cup {[totalCount |-> 0, items |-> v] : v \in ItemsValues}

InitPayload ==
    /\ data \in Payloads
    /\ flags = <<>>
    /\ op = "none"
    /\ args = NoArgs
    /\ result = NoResult
    /\ log = NoLog

\* client._parse_flags_response(data); the flags it returns are kept
CallParseFlagsResponse ==
    /\ op = "none"
    /\ op' = "_parse_flags_response"
    /\ result' = parse_flags_response(data)
    /\ flags' = IF result'.ok THEN result'.value ELSE <<>>
    /\ UNCHANGED <<data, args, log>>

NextPayload == CallParseFlagsResponse

SpecPayload == InitPayload /\ [][NextPayload]_vars

\* C9: a payload without `items`, or whose `items` is not a list, makes the
\* loading of the flags end in an error; it is never taken for a project
\* with zero flags.
C9_MissingItemsIsFatal ==
    op = "_parse_flags_response" =>
        (("items" \notin DOMAIN data \/ data["items"].kind /= "list")
            => ~result.ok)

---------------------------------------------------------------------------
(* file_search.py: the codebase scanner                                    *)
(*                                                                         *)
(* A str the scanner inspects (a flag key, a line, a file name, an         *)
(* extension) is a sequence of characters, a character a one-character     *)
(* string; the content of a file is bytes.  A file system is a function    *)
(* from the path of a directory (the sequence of directory names below the *)
(* scanned root) to its listing: the files and the names of the            *)
(* subdirectories, in the order os.scandir reports them.  A file has a     *)
(* name, the size os.path.getsize reports (None when stat fails), whether  *)
(* open() succeeds, and its content as the sequence of chunks the text     *)
(* layer reads and decodes one at a time, a chunk being a sequence of      *)
(* lines and a line a sequence of bytes.                                   *)

\* config.py
DEFAULT_MAX_FILE_SIZE_MB == 5
MB_TO_BYTES == 1024 * 1024
DEFAULT_EXCLUDE_DIRS ==
    {".git", "node_modules", "__pycache__", ".venv", "dist", "build", "venv",
     "env", ".pytest_cache", "bin", "obj"}

\* the concatenation of a sequence of sequences
Flatten(ss) ==
    LET F[i \in 0..Len(ss)] == IF i = 0 THEN <<>> ELSE F[i - 1] \o ss[i]
    IN  F[Len(ss)]

\* [x] * n
Repeat(x, n) == [i \in 1..n |-> x]

\* list.count(x)
Count(x, s) == Cardinality({i \in 1..Len(s) : s[i] = x})

\* the codecs, on the bytes the files of the model hold: the ASCII bytes
\* decode alike under both, the byte 0xFF is invalid in UTF-8 and is the
\* character U+00FF in Latin-1
decode_byte(b, encoding) ==
    CASE b = 34 -> Some("\"")
      [] b = 39 -> Some("'")
      [] b = 102 -> Some("f")
      [] b = 50 -> Some("2")
      [] b = 255 -> IF encoding = "latin-1" THEN Some("U+00FF") ELSE None

\* a chunk decodes when every byte of it does
Decodable(chunk, encoding) ==
    \A i \in 1..Len(chunk) : \A j \in 1..Len(chunk[i]) :
        decode_byte(chunk[i][j], encoding) /= None

decode_line(line, encoding) ==
    [j \in 1..Len(line) |-> decode_byte(line[j], encoding)[1]]

decode_chunk(chunk, encoding) ==
    [i \in 1..Len(chunk) |-> decode_line(chunk[i], encoding)]

\* `for line_num, line in enumerate(f, 1)`: the lines the loop body sees
\* before the file ends or the iteration raises.  open() raises OSError on
\* a file that cannot be opened; the text layer decodes a whole chunk before
\* it hands out the lines of it, so UnicodeDecodeError is raised when the
\* first chunk holding an invalid byte is reached, after the lines of the
\* chunks before it.
LinesRead(file, encoding) ==
    LET chunks == file.chunks
        bad == {c \in 1..Len(chunks) : ~Decodable(chunks[c], encoding)}
        stop == IF bad = {} THEN Len(chunks) + 1
                ELSE CHOOSE c \in bad : \A d \in bad : c <= d
    IN  IF ~file.openable THEN <<>>
        ELSE Flatten([c \in 1..(stop - 1) |-> decode_chunk(chunks[c], encoding)])

\* pat in line
Contains(line, pat) ==
    \E i \in 1..(Len(line) - Len(pat) + 1) :
        SubSeq(line, i, i + Len(pat) - 1) = pat

\* a plausible slip: the key anywhere on the line
LineMatches_substring(flag_key, line) == Contains(line, flag_key)

\* f'"{flag_key}"' in line or f"'{flag_key}'" in line
LineMatches(flag_key, line) ==
    \/ Contains(line, <<"\"">> \o flag_key \o <<"\"">>)
    \/ Contains(line, <<"'">> \o flag_key \o <<"'">>)

FileLocation(file_path, line_number) ==
    [file_path |-> file_path, line_number |-> line_number]

\* os.path.join(root, file): a path keeps the directory and the file name
os_path_join(root, file) == [dir |-> root, name |-> file]

\* a plausible slip: every requested key is kept, matched or not
NonEmpty_keep_all(results) == results

\* {k: v for k, v in results.items() if v}
NonEmpty(results) ==
    [k \in {x \in DOMAIN results : results[x] /= <<>>} |-> results[k]]

\* CodebaseScanner._search_file_with_encoding: the loop over the keys runs
\* once per element of flag_keys, so a key listed n times appends n times
search_file_with_encoding(file, file_path, flag_keys, encoding) ==
    LET lines == LinesRead(file, encoding)
        Hits(key) ==
            Flatten([n \in 1..Len(lines) |->
                IF LineMatches(key, lines[n])
                THEN Repeat(FileLocation(file_path, n), Count(key, flag_keys))
                ELSE <<>>])
        results == [key \in {flag_keys[i] : i \in 1..Len(flag_keys)} |-> Hits(key)]
    IN  NonEmpty(results)

\* CodebaseScanner._search_file
search_file(file, file_path, flag_keys) ==
    LET file_results == search_file_with_encoding(file, file_path, flag_keys, "utf-8")
    IN  IF DOMAIN file_results = {}
        THEN search_file_with_encoding(file, file_path, flag_keys, "latin-1")
        ELSE file_results

\* str.endswith
EndsWith(s, suffix) ==
    /\ Len(suffix) <= Len(s)
    /\ SubSeq(s, Len(s) - Len(suffix) + 1, Len(s)) = suffix

\* CodebaseScanner._should_scan_file
should_scan_file(filename, extensions) ==
    IF ~Truthy(extensions) THEN TRUE
    ELSE \E i \in 1..Len(extensions[1]) :
            EndsWith(filename, <<".">> \o extensions[1][i])

\* a plausible slip: a file of exactly the maximum size is refused
is_file_size_valid_strict(file, max_file_size_bytes) ==
    IF file.size = None THEN FALSE
    ELSE file.size[1] < max_file_size_bytes

\* a plausible slip: a file whose size cannot be read is let through
is_file_size_valid_lenient(file, max_file_size_bytes) ==
    IF file.size = None THEN TRUE
    ELSE file.size[1] <= max_file_size_bytes

\* CodebaseScanner._is_file_size_valid: os.path.getsize raises OSError when
\* the file cannot be stat-ed
is_file_size_valid(file, max_file_size_bytes) ==
    IF file.size = None THEN FALSE
    ELSE file.size[1] <= max_file_size_bytes

\* a plausible slip: pruning at the scanned root only
Prune_top_level(path, dirs, exclude_dirs) ==
    IF path = <<>>
    THEN SelectSeq(dirs, LAMBDA d : d \notin exclude_dirs)
    ELSE dirs

\* dirs[:] = [d for d in dirs if d not in self.exclude_dirs], at `path`
Prune(path, dirs, exclude_dirs) ==
    SelectSeq(dirs, LAMBDA d : d \notin exclude_dirs)

\* os.walk(directory), top-down with the pruning of the loop body: the
\* directories listed, in order.  A directory that os.scandir cannot list
\* (it is missing or unreadable) yields nothing and no error: os.walk is
\* called without onerror.
Walk(fs, exclude_dirs) ==
    LET visit[path \in DOMAIN fs.dirs] ==
            IF ~fs.dirs[path].listable THEN <<>>
            ELSE LET kept == Prune(path, fs.dirs[path].dirs, exclude_dirs)
                 IN  <<path>> \o
                     Flatten([i \in 1..Len(kept) |-> visit[path \o <<kept[i]>>]])
    IN  IF fs.root_exists THEN visit[<<>>] ELSE <<>>

\* the files the loop `for file in files` meets, with their paths, in order
Candidates(fs, exclude_dirs) ==
    LET roots == Walk(fs, exclude_dirs)
    IN  Flatten([r \in 1..Len(roots) |->
            [i \in 1..Len(fs.dirs[roots[r]].files) |->
                [file |-> fs.dirs[roots[r]].files[i],
                 file_path |-> os_path_join(roots[r], fs.dirs[roots[r]].files[i].name)]]])

\* the files that pass both `continue` tests of the loop
Scanned(fs, scanner, extensions) ==
    SelectSeq(Candidates(fs, scanner.exclude_dirs),
              LAMBDA c : /\ should_scan_file(c.file.name, extensions)
                         /\ is_file_size_valid(c.file, scanner.max_file_size_bytes))

\* CodebaseScanner.__init__
CodebaseScanner(max_file_size_mb, exclude_dirs) ==
    [max_file_size_bytes |-> max_file_size_mb * MB_TO_BYTES,
     exclude_dirs |-> IF exclude_dirs /= None THEN exclude_dirs[1]
                      ELSE DEFAULT_EXCLUDE_DIRS]

\* CodebaseScanner.search_directory
search_directory(fs, scanner, flag_keys, extensions) ==
    LET scanned == Scanned(fs, scanner, extensions)
        results == [key \in {flag_keys[i] : i \in 1..Len(flag_keys)} |->
            Flatten([n \in 1..Len(scanned) |->
                Get(search_file(scanned[n].file, scanned[n].file_path, flag_keys),
                    key, <<>>)])]
    IN  NonEmpty(results)

\* the calls search_directory makes on the file system, in order
IoCall(call, path, encoding) == [call |-> call, path |-> path, encoding |-> encoding]

OpenCalls(c, flag_keys) ==
    <<IoCall("open", c.file_path, "utf-8")>> \o
    (IF DOMAIN search_file_with_encoding(c.file, c.file_path, flag_keys, "utf-8") = {}
     THEN <<IoCall("open", c.file_path, "latin-1")>>
     ELSE <<>>)

FileCalls(c, scanner, flag_keys, extensions) ==
    IF ~should_scan_file(c.file.name, extensions) THEN <<>>
    ELSE <<IoCall("getsize", c.file_path, "")>> \o
         (IF is_file_size_valid(c.file, scanner.max_file_size_bytes)
          THEN OpenCalls(c, flag_keys)
          ELSE <<>>)

IoCalls(fs, scanner, flag_keys, extensions) ==
    LET cands == Candidates(fs, scanner.exclude_dirs)
    IN  Flatten([n \in 1..Len(cands) |->
            FileCalls(cands[n], scanner, flag_keys, extensions)])

---------------------------------------------------------------------------
(* Inputs of the scanner *)

\* the flag keys f and f2
KeyF == <<"f">>
KeyF2 == <<"f", "2">>

FlagKeyLists == {<<KeyF>>, <<KeyF2, KeyF>>, <<KeyF, KeyF>>}

\* lines, as bytes; the bytes of a line that are neither a quote, nor part
\* of a key, nor invalid in UTF-8 are left out
LineDoubleQuoted == <<34, 102, 34>>         \* "f"
LineSingleQuoted == <<39, 102, 39>>         \* 'f'
LineLonger == <<34, 102, 50, 34>>           \* "f2"
LineUnquoted == <<102>>                     \* f
LineMismatched == <<34, 102, 39>>           \* "f'
LineBad == <<255>>                          \* \xff
LineBadQuoted == <<255, 34, 102, 34>>       \* \xff"f"
LineTwice == <<34, 102, 34, 39, 102, 39>>   \* "f"'f'

\* contents: a file of one chunk is read and decoded at once, a longer one
\* chunk after chunk
FileContents ==
    {<<>>,
     <<<<LineUnquoted>>>>,
     <<<<LineUnquoted, LineDoubleQuoted>>>>,
     <<<<LineSingleQuoted>>>>,
     <<<<LineLonger, LineMismatched>>>>,
     <<<<LineSingleQuoted, LineBadQuoted>>>>,
     <<<<LineDoubleQuoted>>, <<LineBad, LineDoubleQuoted>>>>,
     <<<<LineUnquoted>>, <<LineBadQuoted>>>>}

\* file names: a.py, b.js and py (no dot)
NamePy == <<"a", ".", "p", "y">>
NameJs == <<"b", ".", "j", "s">>
NameBare == <<"p", "y">>

ExtensionArgs ==
    {None, Some(<<>>), Some(<< <<"p", "y">> >>),
     Some(<< <<"t", "s">>, <<"j", "s">> >>)}

MaxFileSizeMbs == {1, DEFAULT_MAX_FILE_SIZE_MB}

ExcludeDirArgs == {None, Some({"lib"})}

File(name, size, openable, chunks) ==
    [name |-> name, size |-> size, openable |-> openable, chunks |-> chunks]

\* sizes: one megabyte, the default maximum, one byte more, unknown
FileSizes ==
    {Some(MB_TO_BYTES), Some(DEFAULT_MAX_FILE_SIZE_MB * MB_TO_BYTES),
     Some(DEFAULT_MAX_FILE_SIZE_MB * MB_TO_BYTES + 1), None}

\* the file every other one is a variation of
PlainFile == File(NamePy, Some(MB_TO_BYTES), TRUE, <<<<LineUnquoted, LineDoubleQuoted>>>>)

Files ==
    {File(n, Some(MB_TO_BYTES), TRUE, k) : n \in {NamePy, NameJs}, k \in FileContents}
    \cup {File(NamePy, z, o, PlainFile.chunks) : z \in FileSizes, o \in BOOLEAN}
    \cup {File(NameBare, Some(MB_TO_BYTES), TRUE, PlainFile.chunks)}

\* a second file of a directory
SecondFiles == {File(NameJs, Some(MB_TO_BYTES), TRUE, k) : k \in
                    {<<<<LineSingleQuoted>>>>, <<<<LineLonger, LineMismatched>>>>,
                     <<<<LineTwice, LineUnquoted, LineDoubleQuoted>>>>}}

\* the files of a subdirectory
SubFiles ==
    {PlainFile,
     File(NamePy, None, TRUE, PlainFile.chunks),
     File(NameJs, Some(MB_TO_BYTES), FALSE, <<<<LineSingleQuoted>>>>),
     File(NameJs, Some(MB_TO_BYTES), TRUE,
          <<<<LineDoubleQuoted>>, <<LineBad, LineDoubleQuoted>>>>)}

Listing(listable, files, dirs) == [listable |-> listable, files |-> files, dirs |-> dirs]

\* the files of the root: the names of a directory are pairwise distinct
RootFiles ==
    {<<>>} \cup {<<f>> : f \in Files}
    \cup {<<f, g>> : f \in {x \in Files : x.name /= NameJs}, g \in SecondFiles}

\* the directories below the root: none, one, or one with one below it
SubTrees ==
    {<<>>}
    \cup {(<<d>> :> Listing(TRUE, <<f>>, <<>>)) :
            d \in {"lib", "node_modules"}, f \in SubFiles}
    \cup {(<<d>> :> Listing(TRUE, <<f>>, <<e>>))
          @@ (<<d, e>> :> Listing(TRUE, <<PlainFile>>, <<>>)) :
            d \in {"lib", "node_modules"}, e \in {"pkg", "node_modules"},
            f \in {PlainFile, File(NamePy, Some(MB_TO_BYTES), TRUE, <<<<LineUnquoted>>>>)}}

TopDirs(sub) == IF \E p \in DOMAIN sub : Len(p) = 1
                THEN <<(CHOOSE p \in DOMAIN sub : Len(p) = 1)[1]>>
                ELSE <<>>

\* file systems: a root that can be listed, one that cannot, one that is
\* missing
FileSystems ==
    {[root_exists |-> TRUE,
      dirs |-> (<<>> :> Listing(TRUE, fl, TopDirs(sub))) @@ sub] :
        fl \in RootFiles, sub \in SubTrees}
    \cup {[root_exists |-> TRUE,
           dirs |-> (<<>> :> Listing(FALSE, <<PlainFile>>, TopDirs(sub))) @@ sub] :
            sub \in SubTrees}
    \cup {[root_exists |-> FALSE, dirs |-> <<>>]}

---------------------------------------------------------------------------
(* The scanner as a state machine *)

InitScanner ==
    /\ data \in FileSystems
    /\ flags = <<>>
    /\ op = "none"
    /\ args = NoArgs
    /\ result = NoResult
    /\ log = NoLog

\* CodebaseScanner(max_file_size_mb, exclude_dirs).search_directory(
\* directory, flag_keys, extensions) on the file system `data`.  The scanner
\* keeps nothing between calls: a behaviour is one call.
CallSearchDirectory ==
    \E max_file_size_mb \in MaxFileSizeMbs, exclude_dirs \in ExcludeDirArgs,
       flag_keys \in FlagKeyLists, extensions \in ExtensionArgs :
        LET scanner == CodebaseScanner(max_file_size_mb, exclude_dirs)
        IN  /\ op = "none"
            /\ op' = "search_directory"
            /\ args' = [scanner |-> scanner, flag_keys |-> flag_keys,
                        extensions |-> extensions]
            /\ result' = Return(search_directory(data, scanner, flag_keys, extensions))
            /\ log' = IoCalls(data, scanner, flag_keys, extensions)
            /\ UNCHANGED <<data, flags>>

NextScanner == CallSearchDirectory

SpecScanner == InitScanner /\ [][NextScanner]_vars

---------------------------------------------------------------------------
(* Vocabulary of the properties of the scanner *)

CalledScanner == op = "search_directory"

\* every file of the file system, pruned or not, with its path
AllFiles(fs) ==
    UNION {{[file |-> fs.dirs[p].files[i],
             file_path |-> os_path_join(p, fs.dirs[p].files[i].name)] :
                i \in 1..Len(fs.dirs[p].files)} : p \in DOMAIN fs.dirs}

\* open() was called on the path
Opened(file_path) ==
    \E i \in 1..Len(log) : log[i].call = "open" /\ log[i].path = file_path

\* the result holds a location of the key at line n of the path
Located(key, file_path, n) ==
    /\ result.ok
    /\ key \in DOMAIN result.value
    /\ \E i \in 1..Len(result.value[key]) :
          result.value[key][i] = FileLocation(file_path, n)

\* the result holds a location in the file, whatever the key and the line
Contributes(file_path) ==
    /\ result.ok
    /\ \E key \in DOMAIN result.value : \E i \in 1..Len(result.value[key]) :
          result.value[key][i].file_path = file_path

RequestedKeys == {args.flag_keys[i] : i \in 1..Len(args.flag_keys)}

\* the lines of a file, as bytes
RawLines(file) == Flatten(file.chunks)

\* every byte of the file is ASCII
IsAscii(file) ==
    \A n \in 1..Len(RawLines(file)) : \A j \in 1..Len(RawLines(file)[n]) :
        RawLines(file)[n][j] < 128

\* the text holds the key with the quote character q right before it and
\* right after it
Enclosed(key, q, text) ==
    \E i \in 1..Len(text) :
        /\ i + Len(key) + 1 <= Len(text)
        /\ text[i] = q
        /\ \A j \in 1..Len(key) : text[i + j] = key[j]
        /\ text[i + Len(key) + 1] = q

\* the text holds the key, quoted or not
Occurs(key, text) ==
    \E i \in 0..(Len(text) - Len(key)) : \A j \in 1..Len(key) : text[i + j] = key[j]

\* C11: for a file the scanner opens and reads as UTF-8 text, a location
\* is recorded for a requested key at a line if and only if the line holds
\* the key right between two double quotes or right between two single
\* quotes; the key inside a longer literal, unquoted or between two
\* different quote characters gives no location.
C11_QuotedLiteralMatch ==
    CalledScanner =>
        \A c \in AllFiles(data) :
            (Opened(c.file_path) /\ c.file.openable /\ IsAscii(c.file)) =>
                \A key \in RequestedKeys : \A n \in 1..Len(RawLines(c.file)) :
                    LET text == decode_line(RawLines(c.file)[n], "utf-8")
                    IN  Located(key, c.file_path, n)
                            <=> (Enclosed(key, "\"", text) \/ Enclosed(key, "'", text))

\* a file with "f2" on line 1 and "f' on line 2 is read for the keys f2 and
\* f: f2 is located on line 1, f on neither line although both hold it
C11_Witness ==
    /\ CalledScanner
    /\ KeyF \in RequestedKeys
    /\ \E c \in AllFiles(data) :
          /\ Opened(c.file_path)
          /\ c.file.chunks = <<<<LineLonger, LineMismatched>>>>
          /\ Located(KeyF2, c.file_path, 1)
          /\ Occurs(KeyF, decode_line(LineLonger, "utf-8"))
          /\ Occurs(KeyF, decode_line(LineMismatched, "utf-8"))
          /\ ~Located(KeyF, c.file_path, 1)
          /\ ~Located(KeyF, c.file_path, 2)

\* the path lies below a directory whose name is excluded
UnderExcluded(file_path) ==
    \E i \in 1..Len(file_path.dir) : file_path.dir[i] \in args.scanner.exclude_dirs

\* the walk meets the file: the root can be listed and no directory on the
\* way to the file is excluded
Met(c) ==
    /\ data.root_exists
    /\ data.dirs[<<>>].listable
    /\ ~UnderExcluded(c.file_path)

\* the name is something, then a dot, then the extension
HasExtension(name, ext) ==
    /\ Len(name) >= Len(ext) + 1
    /\ name[Len(name) - Len(ext)] = "."
    /\ \A j \in 1..Len(ext) : name[Len(name) - Len(ext) + j] = ext[j]

ExtensionAccepted(name) ==
    \/ args.extensions = None
    \/ args.extensions[1] = <<>>
    \/ \E i \in 1..Len(args.extensions[1]) : HasExtension(name, args.extensions[1][i])

SizeAccepted(file) ==
    file.size /= None /\ file.size[1] <= args.scanner.max_file_size_bytes

\* some line of the file holds a requested key between double quotes
HoldsQuotedKey(file) ==
    \E n \in 1..Len(RawLines(file)) : \E key \in RequestedKeys :
        Enclosed(key, "\"", decode_line(RawLines(file)[n], "latin-1"))

\* C12: a file the walk meets is opened if and only if its name passes the
\* extension filter (no filter, or the name ends with a dot and one of the
\* extensions) and its size is at most max_file_size_bytes; a file that
\* fails either test contributes no location.
C12_ReadIffExtensionAndSize ==
    CalledScanner =>
        \A c \in AllFiles(data) :
            Met(c) =>
                /\ Opened(c.file_path)
                      <=> (ExtensionAccepted(c.file.name) /\ SizeAccepted(c.file))
                /\ ~(ExtensionAccepted(c.file.name) /\ SizeAccepted(c.file))
                      => ~Contributes(c.file_path)

\* with the filter py, a.py of exactly max_file_size_bytes is read and
\* yields a location while b.js, which holds a quoted key, is not opened
C12_Witness ==
    /\ CalledScanner
    /\ Truthy(args.extensions)
    /\ \E c, d \in AllFiles(data) :
          /\ Met(c) /\ Met(d)
          /\ c.file.size = Some(args.scanner.max_file_size_bytes)
          /\ Opened(c.file_path) /\ Contributes(c.file_path)
          /\ ~ExtensionAccepted(d.file.name)
          /\ d.file.chunks = <<<<LineSingleQuoted>>>>
          /\ ~Opened(d.file_path) /\ ~Contributes(d.file_path)

\* a file one byte above max_file_size_bytes that holds a quoted key is
\* not opened
C12_WitnessTooLarge ==
    /\ CalledScanner
    /\ \E c \in AllFiles(data) :
          /\ Met(c)
          /\ ExtensionAccepted(c.file.name)
          /\ c.file.size = Some(args.scanner.max_file_size_bytes + 1)
          /\ HoldsQuotedKey(c.file)
          /\ ~Opened(c.file_path) /\ ~Contributes(c.file_path)

\* some call of the scan names the path
Touched(file_path) == \E i \in 1..Len(log) : log[i].path = file_path

\* C13: a directory whose name is in exclude_dirs is pruned at every depth:
\* no call is made on a file below it and no such file contributes a
\* location, so every location of the result lies outside the excluded
\* directories.
C13_ExcludedDirsPruned ==
    CalledScanner =>
        /\ \A c \in AllFiles(data) :
              UnderExcluded(c.file_path) =>
                  ~Touched(c.file_path) /\ ~Contributes(c.file_path)
        /\ \A key \in DOMAIN result.value : \A i \in 1..Len(result.value[key]) :
              ~UnderExcluded(result.value[key][i].file_path)

\* lib/node_modules/a.py holds "f", lib is scanned and node_modules, two
\* levels down, is not: the result is empty
C13_Witness ==
    /\ CalledScanner
    /\ result.value = EmptyDict
    /\ \E c, d \in AllFiles(data) :
          /\ c.file_path.dir = <<"lib", "node_modules">>
          /\ UnderExcluded(c.file_path)
          /\ HoldsQuotedKey(c.file)
          /\ ExtensionAccepted(c.file.name) /\ SizeAccepted(c.file)
          /\ ~Touched(c.file_path)
          /\ d.file_path.dir = <<"lib">>
          /\ Opened(d.file_path)

\* some line of the file holds the key between two equal quote characters
HoldsQuoted(file, key) ==
    \E n \in 1..Len(RawLines(file)) :
        LET text == decode_line(RawLines(file)[n], "latin-1")
        IN  Enclosed(key, "\"", text) \/ Enclosed(key, "'", text)

\* C14: the keys of the returned mapping are requested keys, each with a
\* non-empty list of locations; a key is present only if a line of an
\* opened file holds it quoted, and it is present whenever such a line is
\* in a file read as UTF-8 text: a requested key without a match is absent,
\* never present with an empty list.
C14_OnlyMatchedKeys ==
    CalledScanner =>
        /\ result.ok
        /\ DOMAIN result.value \subseteq RequestedKeys
        /\ \A key \in DOMAIN result.value : result.value[key] /= <<>>
        /\ \A key \in RequestedKeys :
              /\ key \in DOMAIN result.value =>
                    \E c \in AllFiles(data) :
                        Opened(c.file_path) /\ HoldsQuoted(c.file, key)
              /\ (\E c \in AllFiles(data) :
                      /\ Opened(c.file_path) /\ c.file.openable /\ IsAscii(c.file)
                      /\ HoldsQuoted(c.file, key))
                    => key \in DOMAIN result.value

\* f2 and f are requested, files are read, only f is matched: the mapping
\* has the key f alone
C14_Witness ==
    /\ CalledScanner
    /\ RequestedKeys = {KeyF, KeyF2}
    /\ DOMAIN result.value = {KeyF}
    /\ \E c \in AllFiles(data) : Opened(c.file_path) /\ ~HoldsQuoted(c.file, KeyF2)

\* the file holds a byte that is invalid in UTF-8
HasInvalidByte(file) == ~IsAscii(file)

\* C15: for a file that is read and holds a byte invalid in UTF-8, wherever
\* the byte is, the locations reported are those of a complete Latin-1
\* scan: a location for a key at a line if and only if the line, decoded
\* as Latin-1, holds the key quoted.
C15_DecodeFailureRescansAsLatin1 ==
    CalledScanner =>
        \A c \in AllFiles(data) :
            (Opened(c.file_path) /\ c.file.openable /\ HasInvalidByte(c.file)) =>
                \A key \in RequestedKeys : \A n \in 1..Len(RawLines(c.file)) :
                    LET text == decode_line(RawLines(c.file)[n], "latin-1")
                    IN  Located(key, c.file_path, n)
                            <=> (Enclosed(key, "\"", text) \/ Enclosed(key, "'", text))

\* the tree of the file system with the files left out that cannot be
\* stat-ed or opened
WithoutUnreadable(fs) ==
    [fs EXCEPT !.dirs = [p \in DOMAIN fs.dirs |->
        [fs.dirs[p] EXCEPT !.files =
            SelectSeq(@, LAMBDA f : f.size /= None /\ f.openable)]]]

Unreadable(file) == file.size = None \/ ~file.openable

\* C16: a file whose size cannot be read or that cannot be opened is
\* skipped silently: the call returns, and what it returns is what it
\* returns on the same tree without the unreadable files.
C16_UnreadableFilesSkipped ==
    CalledScanner =>
        /\ result.ok
        /\ \A c \in AllFiles(data) : Unreadable(c.file) => ~Contributes(c.file_path)
        /\ result.value = search_directory(WithoutUnreadable(data), args.scanner,
                                           args.flag_keys, args.extensions)

\* a.py of the root holds a quoted key and cannot be opened: open() is
\* tried and fails, the scan goes on and reports the match in lib
C16_Witness ==
    /\ CalledScanner
    /\ result.ok
    /\ \E c, d \in AllFiles(data) :
          /\ c.file_path.dir = <<>>
          /\ ~c.file.openable
          /\ HoldsQuotedKey(c.file)
          /\ Opened(c.file_path)
          /\ ~Contributes(c.file_path)
          /\ d.file_path.dir = <<"lib">>
          /\ Contributes(d.file_path)

\* the same with a file whose size cannot be read: it is not opened
C16_WitnessNoSize ==
    /\ CalledScanner
    /\ result.ok
    /\ \E c, d \in AllFiles(data) :
          /\ c.file_path.dir = <<>>
          /\ c.file.size = None
          /\ HoldsQuotedKey(c.file)
          /\ Touched(c.file_path) /\ ~Opened(c.file_path)
          /\ ~Contributes(c.file_path)
          /\ d.file_path.dir = <<"lib">>
          /\ Contributes(d.file_path)

\* C17: a call with a root directory that does not exist or cannot be
\* listed ends in an error; it does not return a mapping.
C17_UnreadableRootIsFatal ==
    CalledScanner =>
        ((~data.root_exists \/ ~data.dirs[<<>>].listable) => ~result.ok)

\* the place of a path in the traversal: its index among the files read
PathIndex(file_path) ==
    LET scanned == Scanned(data, args.scanner, args.extensions)
    IN  CHOOSE n \in 1..Len(scanned) : scanned[n].file_path = file_path

\* location a comes before location b: an earlier file of the traversal,
\* or the same file and a lower line
Before(a, b) ==
    \/ PathIndex(a.file_path) < PathIndex(b.file_path)
    \/ a.file_path = b.file_path /\ a.line_number < b.line_number

\* C28: every location list of the result is in traversal order, then line
\* order, strictly: no (file_path, line_number) twice under a key, the
\* locations of a file together, its line numbers at least 1 and rising.
C28_LocationsOrderedNoRepeats ==
    (CalledScanner /\ result.ok) =>
        \A key \in DOMAIN result.value :
            LET locations == result.value[key]
            IN  /\ \A i \in 1..Len(locations) : locations[i].line_number >= 1
                /\ \A i, j \in 1..Len(locations) :
                      i < j => Before(locations[i], locations[j])

\* C28 for calls whose flag_keys name no key twice.
C28_OnDistinctKeys ==
    (CalledScanner /\ result.ok /\ Injective(args.flag_keys)) =>
        \A key \in DOMAIN result.value :
            LET locations == result.value[key]
            IN  /\ \A i \in 1..Len(locations) : locations[i].line_number >= 1
                /\ \A i, j \in 1..Len(locations) :
                      i < j => Before(locations[i], locations[j])

\* distinct keys, and a key located in two files, in the second on a line
\* that holds it twice and on a later line
C28_WitnessDistinct ==
    /\ CalledScanner /\ result.ok /\ Injective(args.flag_keys)
    /\ KeyF \in DOMAIN result.value
    /\ Len(result.value[KeyF]) = 3
    /\ result.value[KeyF][1].file_path.name = NamePy
    /\ result.value[KeyF][2].file_path.name = NameJs
    /\ result.value[KeyF][2].line_number = 1
    /\ result.value[KeyF][3].line_number = 3

---------------------------------------------------------------------------
(* cache.py: SimpleCache                                                   *)
(*                                                                         *)
(* The cache is a directory of files, one per key.  The state `data` of    *)
(* the cache holds ttl_seconds, the files of the directory (a function     *)
(* from file names to contents) and the value time.time() returns, in      *)
(* whole seconds.  A key and a file name are sequences of characters.  The *)
(* content of a file is what open and json.load make of it: a file that    *)
(* cannot be read, text that does not parse, or a JSON value.  The data    *)
(* the program stores is the decoded JSON payload of the API, which         *)
(* json.dump and json.load carry over unchanged.                           *)

\* key.replace("/", "_").replace("\\", "_")
safe_key(key) ==
    [i \in 1..Len(key) |-> IF key[i] \in {"/", "\\"} THEN "_" ELSE key[i]]

\* SimpleCache._get_cache_file: the name of the file below cache_dir
get_cache_file(key) == safe_key(key) \o <<".", "j", "s", "o", "n">>

\* a JSON object with its members
JsonObject(members) == [kind |-> "object", members |-> members]

\* the content of a file: whether open() and read succeed, whether the
\* text parses as JSON, and the JSON value it then holds
Content(readable, valid, doc) == [readable |-> readable, valid |-> valid, doc |-> doc]

\* json.dump(cached, f) into a file opened with 'w': the new content
json_dump(cached) == Content(TRUE, TRUE, JsonObject(cached))

\* open(cache_file, 'r') and json.load(f)
json_load(content) ==
    IF ~content.readable THEN Raise("OSError")
    ELSE IF ~content.valid THEN Raise("JSONDecodeError")
    ELSE Return(content.doc)

\* a plausible slip: an entry as old as the TTL counts as expired
get_expired_at_ttl(cache, key) ==
    LET cache_file == get_cache_file(key)
        loaded == json_load(cache.files[cache_file])
        cached == loaded.value
        timestamp == Get(cached.members, "timestamp", JNumber(0))
    IN  IF cache_file \notin DOMAIN cache.files THEN Return(None)
        ELSE IF ~loaded.ok THEN Return(None)
        ELSE IF cached.kind /= "object" THEN Raise("AttributeError")
        ELSE IF timestamp.kind /= "number" THEN Raise("TypeError")
        ELSE IF cache.clock - timestamp.number >= cache.ttl_seconds THEN Return(None)
        ELSE Return(IF "data" \in DOMAIN cached.members
                    THEN Some(cached.members["data"]) ELSE None)

\* SimpleCache.get; the value returned is None or Some(data).  OSError and
\* JSONDecodeError are caught; `cached.get` on a JSON value that is not an
\* object raises AttributeError and the subtraction of a timestamp that is
\* not a number raises TypeError, and neither is caught.
get(cache, key) ==
    LET cache_file == get_cache_file(key)
        loaded == json_load(cache.files[cache_file])
        cached == loaded.value
        timestamp == Get(cached.members, "timestamp", JNumber(0))
    IN  IF cache_file \notin DOMAIN cache.files THEN Return(None)
        ELSE IF ~loaded.ok THEN Return(None)
        ELSE IF cached.kind /= "object" THEN Raise("AttributeError")
        ELSE IF timestamp.kind /= "number" THEN Raise("TypeError")
        ELSE IF cache.clock - timestamp.number > cache.ttl_seconds THEN Return(None)
        ELSE Return(IF "data" \in DOMAIN cached.members
                    THEN Some(cached.members["data"]) ELSE None)

\* the files after d[k] = v
WithFile(files, name, content) ==
    [n \in DOMAIN files \cup {name} |-> IF n = name THEN content ELSE files[n]]

\* SimpleCache.set: the files afterwards; open() may raise OSError, which
\* is swallowed and leaves the directory as it was
set(cache, key, value, io_ok) ==
    IF io_ok
    THEN WithFile(cache.files, get_cache_file(key),
                  json_dump([timestamp |-> JNumber(cache.clock), data |-> value]))
    ELSE cache.files

\* SimpleCache.clear_all: the files afterwards; unlink may raise OSError
\* for the files of `stuck`, which stay
clear_all(cache, stuck) == [n \in DOMAIN cache.files \cap stuck |-> cache.files[n]]

---------------------------------------------------------------------------
(* The cache as a state machine *)

\* keys: a/b, a_b and c
KeySlash == <<"a", "/", "b">>
KeyUnderscore == <<"a", "_", "b">>
KeyC == <<"c">>
CacheKeys == {KeySlash, KeyUnderscore, KeyC}

\* payloads
CacheDatas == {[name |-> "A"], [name |-> "B"]}

\* ttl_seconds ranges over 1..MaxTtl
MaxTtl == 2

\* time.time() is far above any TTL: the clock starts above MaxTtl
Epoch == MaxTtl + 1

\* the seconds that pass in a behaviour
MaxTicks == 3

\* the writes to the directory in a behaviour
MaxOps == 2

\* files another writer leaves in the directory: text that is not JSON, an
\* object without timestamp, an object without data, a list, an object
\* whose timestamp is a string, a file that cannot be read
ForeignContents ==
    {Content(TRUE, FALSE, JNull),
     Content(TRUE, TRUE, JsonObject([data |-> [name |-> "A"]])),
     Content(TRUE, TRUE, JsonObject([timestamp |-> JNumber(Epoch)])),
     Content(TRUE, TRUE, JList(<<>>)),
     Content(TRUE, TRUE, JsonObject([timestamp |-> JString(<<"x">>), data |-> [name |-> "A"]])),
     Content(FALSE, TRUE, JsonObject([timestamp |-> JNumber(Epoch), data |-> [name |-> "A"]]))}

\* a write to the directory: what was called, on which key, with which
\* data, whether the file system obeyed, and when
LogEntry(o, key, value, ok, at) ==
    [op |-> o, key |-> key, value |-> value, ok |-> ok, at |-> at]

\* SimpleCache(ttl_seconds) on a new, empty cache directory
InitCache ==
    /\ \E ttl_seconds \in 1..MaxTtl :
          data = [ttl_seconds |-> ttl_seconds, files |-> EmptyDict, clock |-> Epoch]
    /\ flags = <<>>
    /\ op = "none"
    /\ args = NoArgs
    /\ result = NoResult
    /\ log = NoLog

\* cache.set(key, value)
CallSet ==
    \E key \in CacheKeys, value \in CacheDatas, io_ok \in BOOLEAN :
        /\ Len(log) < MaxOps
        /\ op' = "set"
        /\ args' = [key |-> key, value |-> Some(value)]
        /\ data' = [data EXCEPT !.files = set(data, key, value, io_ok)]
        /\ result' = Return(None)
        /\ log' = Append(log, LogEntry("set", key, Some(value), io_ok, data.clock))
        /\ UNCHANGED flags

\* cache.get(key)
CallGet ==
    \E key \in CacheKeys :
        /\ op' = "get"
        /\ args' = [key |-> key, value |-> None]
        /\ result' = get(data, key)
        /\ UNCHANGED <<data, flags, log>>

\* cache.clear_all(); at most one file of the directory resists
CallClearAll ==
    \E stuck \in {{}} \cup {{n} : n \in DOMAIN data.files} :
        /\ Len(log) < MaxOps
        /\ op' = "clear_all"
        /\ args' = [key |-> None, value |-> None]
        /\ data' = [data EXCEPT !.files = clear_all(data, stuck)]
        /\ result' = Return(None)
        /\ log' = Append(log, LogEntry("clear_all", None, None, stuck = {}, data.clock))
        /\ UNCHANGED flags

\* a second passes; what the last call returned is then a thing of the past
Tick ==
    /\ data.clock < Epoch + MaxTicks
    /\ data' = [data EXCEPT !.clock = @ + 1]
    /\ op' = "tick"
    /\ args' = NoArgs
    /\ result' = NoResult
    /\ UNCHANGED <<flags, log>>

\* another writer puts a file at the place of the file of the key c
ForeignWrite ==
    \E key \in {KeyC}, content \in ForeignContents :
        /\ Len(log) < MaxOps
        /\ data' = [data EXCEPT !.files = WithFile(@, get_cache_file(key), content)]
        /\ log' = Append(log, LogEntry("write", key, None, TRUE, data.clock))
        /\ op' = "write"
        /\ args' = NoArgs
        /\ result' = NoResult
        /\ UNCHANGED flags

NextCache == CallSet \/ CallGet \/ CallClearAll \/ Tick \/ ForeignWrite

SpecCache == InitCache /\ [][NextCache]_vars

---------------------------------------------------------------------------
(* Vocabulary of the properties of the cache *)

CalledGet == op = "get"

\* the history is set and clear_all calls that the file system obeyed
OnlySetAndClearAll ==
    \A i \in 1..Len(log) : log[i].op \in {"set", "clear_all"} /\ log[i].ok

\* the positions of the set calls on the key
SetsOf(key) == {i \in 1..Len(log) : log[i].op = "set" /\ log[i].key = key}

LastSetOf(key) == CHOOSE i \in SetsOf(key) : \A j \in SetsOf(key) : j <= i

ClearedAfter(i) == \E j \in (i + 1)..Len(log) : log[j].op = "clear_all"

\* C18: after set and clear_all calls, get(k) returns None when k was never
\* set or a clear_all followed its last set, and otherwise, within the TTL
\* of that last set, exactly the data of that set.
C18_GetReturnsLastSet ==
    (CalledGet /\ OnlySetAndClearAll) =>
        IF SetsOf(args.key) = {} \/ ClearedAfter(LastSetOf(args.key))
        THEN result = Return(None)
        ELSE (data.clock - log[LastSetOf(args.key)].at <= data.ttl_seconds)
                => result = Return(log[LastSetOf(args.key)].value)

\* the step is a call of set on the key k1
IsSetOf(k1) == op' = "set" /\ args'.key = k1 /\ Len(log') = Len(log) + 1

\* C20: entries of different keys are independent: a set(k1, data) leaves
\* what get(k2) returns unchanged for every key k2 other than k1.
C20_SetLeavesOtherKeysAlone ==
    [][\A k1, k2 \in CacheKeys :
          (k1 /= k2 /\ IsSetOf(k1)) => get(data', k2) = get(data, k2)]_vars

\* the file of the key, when it is there and holds an object whose
\* timestamp, if it has one, is a number
Entry_of(key) == data.files[get_cache_file(key)].doc.members

HasEntry(key) ==
    /\ get_cache_file(key) \in DOMAIN data.files
    /\ data.files[get_cache_file(key)].readable
    /\ data.files[get_cache_file(key)].valid
    /\ data.files[get_cache_file(key)].doc.kind = "object"
    /\ "timestamp" \in DOMAIN Entry_of(key) => Entry_of(key)["timestamp"].kind = "number"

\* C19: get never returns an expired entry: an entry whose age, the clock
\* minus its timestamp, exceeds ttl_seconds gives None; an entry whose age
\* is at most ttl_seconds, exactly ttl_seconds included, is returned; an
\* entry without a timestamp counts as written at time 0 and gives None.
C19_ExpiredEntriesNotReturned ==
    (CalledGet /\ HasEntry(args.key)) =>
        LET entry == Entry_of(args.key)
        IN  /\ ("timestamp" \in DOMAIN entry
                  /\ data.clock - entry["timestamp"].number > data.ttl_seconds)
                => result = Return(None)
            /\ ("timestamp" \in DOMAIN entry /\ "data" \in DOMAIN entry
                  /\ data.clock - entry["timestamp"].number <= data.ttl_seconds)
                => result = Return(Some(entry["data"]))
            /\ "timestamp" \notin DOMAIN entry => result = Return(None)

\* an entry is read when its age is exactly ttl_seconds and is returned
C19_Witness ==
    /\ CalledGet
    /\ HasEntry(args.key)
    /\ DOMAIN Entry_of(args.key) = {"timestamp", "data"}
    /\ data.clock - Entry_of(args.key)["timestamp"].number = data.ttl_seconds
    /\ result = Return(Some(Entry_of(args.key)["data"]))

\* an entry is read one second later and is not returned
C19_WitnessExpired ==
    /\ CalledGet
    /\ HasEntry(args.key)
    /\ DOMAIN Entry_of(args.key) = {"timestamp", "data"}
    /\ data.clock - Entry_of(args.key)["timestamp"].number = data.ttl_seconds + 1
    /\ result = Return(None)

\* an entry without timestamp, with data, is read and is not returned
C19_WitnessNoTimestamp ==
    /\ CalledGet
    /\ HasEntry(args.key)
    /\ DOMAIN Entry_of(args.key) = {"data"}
    /\ result = Return(None)

\* the file of the key is unusable: missing, unreadable, not JSON, not an
\* object, without timestamp or data, or with a timestamp that is no number
Unusable(key) ==
    LET f == get_cache_file(key)
    IN  \/ f \notin DOMAIN data.files
        \/ ~data.files[f].readable
        \/ ~data.files[f].valid
        \/ data.files[f].doc.kind /= "object"
        \/ "timestamp" \notin DOMAIN data.files[f].doc.members
        \/ "data" \notin DOMAIN data.files[f].doc.members
        \/ data.files[f].doc.members["timestamp"].kind /= "number"

\* C21: get returns None and never raises when the file of the key is
\* unusable (missing, unreadable, not JSON, without timestamp, without
\* data, not an object, timestamp not a number).
C21_GetNeverRaises ==
    (CalledGet /\ Unusable(args.key)) => result = Return(None)

\* C21, second part: get does not modify or delete what is stored.
C21_GetLeavesFilesAlone ==
    [][op' = "get" => data'.files = data.files]_vars

\* ---------------------------------------------------------------------
\* Fetching the flags of a project: LaunchDarklyClient.get_all_flags
\* (api_client.py) and cli.fetch_all_live_flags (cli.py), on SimpleCache
\* ---------------------------------------------------------------------

\* raise LaunchDarklyAPIError(message, status_code)
LaunchDarklyAPIError(status_code) ==
    [ok |-> FALSE, error |-> "LaunchDarklyAPIError", status_code |-> status_code]

\* raise typer.Exit(code)
Exit(code) == [ok |-> FALSE, error |-> "Exit", code |-> code]

\* what requests.get gives: a response with a status code and a JSON
\* body, or a RequestException raised before any response (status None)
Response(status_code, body) == [status_code |-> Some(status_code), body |-> body]

\* requests.get raises ConnectionError or Timeout
ConnectionFailed == [status_code |-> None, body |-> EmptyDict]

\* response.raise_for_status(): HTTPError for the 4xx and 5xx codes
raise_for_status(response) ==
    IF response.status_code[1] >= 400 THEN Raise("HTTPError") ELSE Return(None)

\* what a fetch leaves behind: the outcome of the call, the files of the
\* cache directory, and the calls it made to the cache and to the API
Fetched(outcome, files, calls) == [result |-> outcome, files |-> files, log |-> calls]

\* the cache is consulted when it is enabled and no refresh is forced
ConsultsCache(enable_cache, force_refresh) == enable_cache /\ ~force_refresh

\* the fetched payload is stored when the cache is enabled or a refresh
\* is forced
StoresPayload_always(enable_cache, force_refresh) == TRUE

StoresPayload_never(enable_cache, force_refresh) == FALSE

StoresPayload(enable_cache, force_refresh) == enable_cache \/ force_refresh

\* the except clauses of get_all_flags: an HTTPError carries the status
\* code of the response, any other RequestException carries none
ApiError_no_status(response) == LaunchDarklyAPIError(None)

ApiError(response) ==
    IF response.status_code = None
    THEN LaunchDarklyAPIError(None)
    ELSE LaunchDarklyAPIError(Some(response.status_code[1]))

\* the try block shared by get_all_flags and fetch_all_live_flags:
\* requests.get, raise_for_status, response.json(), cache.set
Request(cache, project, stores, response, io_ok) ==
    LET requested == LogEntry("request", project, None, TRUE, cache.clock)
        written == LogEntry("set", project, Some(response.body), io_ok, cache.clock)
    IN  IF response.status_code = None \/ ~raise_for_status(response).ok
        THEN Fetched(Raise("RequestException"), cache.files, <<requested>>)
        ELSE IF stores
        THEN Fetched(Return(response.body),
                     set(cache, project, response.body, io_ok),
                     <<requested, written>>)
        ELSE Fetched(Return(response.body), cache.files, <<requested>>)

\* LaunchDarklyClient.get_all_flags(project, enable_cache, force_refresh)
get_all_flags(cache, project, enable_cache, force_refresh, response, io_ok) ==
    LET consults == ConsultsCache(enable_cache, force_refresh)
        cached_data == get(cache, project)
        looked == LogEntry("get", project, None, TRUE, cache.clock)
        before == IF consults THEN <<looked>> ELSE <<>>
        fetched == Request(cache, project, StoresPayload(enable_cache, force_refresh),
                           response, io_ok)
    IN  IF consults /\ ~cached_data.ok
        THEN Fetched(cached_data, cache.files, before)
        ELSE IF consults /\ cached_data.value /= None
        THEN Fetched(parse_flags_response(cached_data.value[1]), cache.files, before)
        ELSE IF fetched.result.ok
        THEN Fetched(parse_flags_response(fetched.result.value),
                     fetched.files, before \o fetched.log)
        ELSE Fetched(ApiError(response), fetched.files, before \o fetched.log)

\* cli.fetch_all_live_flags(project, base_url, cache, use_cache,
\* override_cache), with the module's api_key set or not
fetch_all_live_flags(api_key, cache, project, use_cache, override_cache, response, io_ok) ==
    LET consults == ConsultsCache(use_cache, override_cache)
        cached_data == get(cache, project)
        looked == LogEntry("get", project, None, TRUE, cache.clock)
        before == IF consults THEN <<looked>> ELSE <<>>
        fetched == Request(cache, project, StoresPayload(use_cache, override_cache),
                           response, io_ok)
    IN  IF ~api_key
        THEN Fetched(Exit(1), cache.files, <<>>)
        ELSE IF consults /\ ~cached_data.ok
        THEN Fetched(cached_data, cache.files, before)
        ELSE IF consults /\ cached_data.value /= None
        THEN Fetched(Return(cached_data.value[1]), cache.files, before)
        ELSE IF fetched.result.ok
        THEN Fetched(fetched.result, fetched.files, before \o fetched.log)
        ELSE Fetched(Exit(1), fetched.files, before \o fetched.log)

\* ---------------------------------------------------------------------
\* cli.py: the revision that splits the inactive flags into OFF and ON
\* lists, working on the dictionaries of the payload
\* ---------------------------------------------------------------------

\* the entry of an `environments` dict under a name, {} when there is none
EnvData(environments, env) ==
    IF \E i \in 1..Len(environments) : environments[i].name = env
    THEN environments[CHOOSE i \in 1..Len(environments) : environments[i].name = env].data
    ELSE EmptyDict

\* get_env_value(flag, env, key, default): the value, or the default (None
\* when the caller gives none)
get_env_value(flag, env, key, default) ==
    LET env_data == EnvData(Get(flag, "environments", <<>>), env)
    IN  IF key \in DOMAIN env_data THEN Some(env_data[key]) ELSE default

\* the loop over environments.values() in filter_flags
all_envs_inactive(environments, threshold) ==
    \A i \in 1..Len(environments) :
        fromtimestamp_ms(Get(environments[i].data, "lastModified", 0)) < threshold

\* the body of the loop of filter_flags: whether the item is appended
Appended(item, threshold, is_archived, is_temporary, is_on, env_order, maintainers) ==
    LET environments == Get(item, "environments", <<>>)
        primary_env == get_primary_env(item, env_order)
        maintainer_name == Get(Get(item, "_maintainer", EmptyDict), "firstName", "")
    IN  /\ item["archived"] = is_archived
        /\ item["temporary"] = is_temporary
        /\ environments /= <<>>
        /\ all_envs_inactive(environments, threshold)
        /\ get_env_value(item, primary_env, "on", None) = Some(is_on)
        /\ Truthy(maintainers) =>
              /\ "firstName" \in DOMAIN Get(item, "_maintainer", EmptyDict)
              /\ InList(maintainer_name, maintainers[1])

\* item["archived"] and item["temporary"] raise KeyError on an item that
\* lacks the member when the loop reads it
ItemRaises(item, is_archived) ==
    \/ "archived" \notin DOMAIN item
    \/ item["archived"] = is_archived /\ "temporary" \notin DOMAIN item

\* filter_flags(items, modified_before, is_archived, is_temporary, is_on,
\* env_order, maintainers)
filter_flags(items, threshold, is_archived, is_temporary, is_on, env_order, maintainers) ==
    LET Keep(item) == Appended(item, threshold, is_archived, is_temporary, is_on,
                               env_order, maintainers)
    IN  IF \E i \in 1..Len(items) : ItemRaises(items[i], is_archived)
        THEN Raise("KeyError")
        ELSE Return(SelectSeq(items, Keep))

\* [f for f in flags if f["key"] not in exclude_list]
ExcludeKeys(items, exclude_list) ==
    LET Keep(f) == ~InList(f["key"], exclude_list)
    IN  IF \E i \in 1..Len(items) : "key" \notin DOMAIN items[i]
        THEN Raise("KeyError")
        ELSE Return(SelectSeq(items, Keep))

\* `for item in items` over a value that is no list: nothing to visit in
\* an empty string or object, item["archived"] raises on a character or a
\* key, null and numbers are not iterable
IterateOther(items) ==
    IF /\ items.kind \in {"string", "object"}
       /\ (items.kind = "string" => items.chars = <<>>)
       /\ (items.kind = "object" => items.keys = <<>>)
    THEN Return(<<<<>>, <<>>>>)
    ELSE Raise("TypeError")

\* cli.get_inactive_flags after the fetch: `payload` is what
\* fetch_all_live_flags returned, `now` what datetime.now() returns; the
\* result is the pair (inactive_flags_off, inactive_flags_on)
cli_get_inactive_flags(payload, months, env_order, maintainers, exclude_list, now) ==
    LET threshold == modified_before(now, months)
        items == payload["items"].list
        off == filter_flags(items, threshold, FALSE, TRUE, FALSE, env_order, maintainers)
        on == filter_flags(items, threshold, FALSE, TRUE, TRUE, env_order, maintainers)
        off_kept == ExcludeKeys(off.value, exclude_list[1])
        on_kept == ExcludeKeys(on.value, exclude_list[1])
    IN  IF "items" \notin DOMAIN payload THEN Raise("KeyError")
        ELSE IF payload["items"].kind /= "list" THEN IterateOther(payload["items"])
        ELSE IF ~off.ok THEN off
        ELSE IF ~Truthy(exclude_list) THEN Return(<<off.value, on.value>>)
        ELSE IF ~off_kept.ok THEN off_kept
        ELSE IF ~on_kept.ok THEN on_kept
        ELSE Return(<<off_kept.value, on_kept.value>>)

\* ---------------------------------------------------------------------
\* cli.py: the scan command
\* ---------------------------------------------------------------------

\* os.path.isdir(directory)
os_path_isdir_always(directories, directory) == TRUE

os_path_isdir(directories, directory) == directory \in directories

\* the keys of all_inactive_flags = inactive_flags_off + inactive_flags_on
scan_flag_keys(lists) ==
    LET all_inactive_flags == lists[1] \o lists[2]
    IN  [i \in 1..Len(all_inactive_flags) |-> all_inactive_flags[i]["key"]]

\* the end of scan: search_directory walks the directory, where
\* os.path.getsize may raise OSError; with no inactive flag found in the
\* codebase the command raises Exit(0), otherwise it prints the locations
\* and returns.  `search` is what the walk meets.
scan_search(flag_keys, search) ==
    IF search = "OSError" THEN Raise("OSError")
    ELSE IF search = "found" /\ flag_keys /= <<>> THEN Return(None)
    ELSE Exit(0)

\* scan(project, directory, months, cache_ttl, no_cache, override_cache)
\* with the default --env and no --maintainer, --exclude or --ext; `env`
\* is the process: api_key, the cache directory, the clock, the
\* directories that exist
scan(env, project, directory, months, cache_ttl, no_cache, override_cache, response, io_ok, now, search) ==
    LET cache_instance == [env EXCEPT !.ttl_seconds = cache_ttl]
        made == LogEntry("SimpleCache", <<>>, None, TRUE, env.clock)
        env_list == <<"production", "staging", "dev">>
        fetched == fetch_all_live_flags(env.api_key, cache_instance, project,
                                        ~no_cache, override_cache, response, io_ok)
        lists == cli_get_inactive_flags(fetched.result.value, months, env_list,
                                        None, None, now)
        flag_keys == scan_flag_keys(lists.value)
        searched == LogEntry("search_directory", <<>>, Some(flag_keys),
                             search /= "OSError", env.clock)
    IN  IF ~os_path_isdir(env.directories, directory)
        THEN Fetched(Exit(1), env.files, <<>>)
        ELSE IF ~fetched.result.ok
        THEN Fetched(fetched.result, fetched.files, <<made>> \o fetched.log)
        ELSE IF ~lists.ok
        THEN Fetched(lists, fetched.files, <<made>> \o fetched.log)
        ELSE Fetched(scan_search(flag_keys, search), fetched.files,
                     <<made>> \o fetched.log \o <<searched>>)

\* the exit status of the process: 0 when the command returns, the code of
\* typer.Exit, 1 for an exception that leaves the command
exit_status(outcome) ==
    IF outcome.ok THEN 0
    ELSE IF outcome.error = "Exit" THEN outcome.code
    ELSE 1

\* the projects that are fetched
ProjectP == <<"p">>

Projects == {KeyC, ProjectP}

\* the payload an earlier run cached and the one the API serves now
PayloadOld ==
    [items |-> JList(<<[key |-> "flag-a", archived |-> FALSE, temporary |-> TRUE,
                        environments |->
                            <<Entry("production", [on |-> FALSE, lastModified |-> 4])>>]>>)]

PayloadNew ==
    [totalCount |-> 1,
     items |-> JList(<<[key |-> "flag-b", archived |-> FALSE, temporary |-> TRUE,
                        environments |->
                            <<Entry("production", [on |-> TRUE, lastModified |-> 4])>>]>>)]

\* what requests.get can give
Responses ==
    {Response(200, PayloadOld), Response(200, PayloadNew),
     Response(401, EmptyDict), Response(404, EmptyDict), Response(500, EmptyDict),
     ConnectionFailed}

\* the cache file an earlier run left for a project: an entry written at
\* the present second, an entry written more than any TTL ago, a file
\* that holds a JSON list, a file that is not JSON
StoredContents ==
    {Content(TRUE, TRUE, JsonObject([timestamp |-> JNumber(Epoch), data |-> PayloadOld])),
     Content(TRUE, TRUE, JsonObject([timestamp |-> JNumber(Epoch - MaxTtl - 1),
                                     data |-> PayloadOld])),
     Content(TRUE, TRUE, JList(<<>>)),
     Content(TRUE, FALSE, JNull)}

\* the cache directories an earlier run can leave: each project with a
\* file or without
StoredFiles ==
    UNION {[{get_cache_file(p) : p \in ps} -> StoredContents] : ps \in SUBSET Projects}

\* a process with LD_API_KEY set or not, a SimpleCache(ttl_seconds) on the
\* cache directory earlier runs left, and the directories that exist
InitFetch ==
    /\ \E ttl_seconds \in 1..MaxTtl, files \in StoredFiles, api_key \in BOOLEAN :
          data = [ttl_seconds |-> ttl_seconds, files |-> files, clock |-> Epoch,
                  api_key |-> api_key, directories |-> {"repo"}]
    /\ flags = <<>>
    /\ op = "none"
    /\ args = NoArgs
    /\ result = NoResult
    /\ log = NoLog

\* the arguments of a fetch, and what the network and the file system do
FetchArgs(project, enable_cache, force_refresh, response, io_ok) ==
    [project |-> project, enable_cache |-> enable_cache,
     force_refresh |-> force_refresh, response |-> response, io_ok |-> io_ok]

\* client.get_all_flags(project, enable_cache, force_refresh)
CallGetAllFlags ==
    \E project \in Projects, enable_cache \in BOOLEAN, force_refresh \in BOOLEAN,
       response \in Responses, io_ok \in BOOLEAN :
        LET fetched == get_all_flags(data, project, enable_cache, force_refresh,
                                     response, io_ok)
        IN  /\ op = "none"
            /\ op' = "get_all_flags"
            /\ args' = FetchArgs(project, enable_cache, force_refresh, response, io_ok)
            /\ result' = fetched.result
            /\ data' = [data EXCEPT !.files = fetched.files]
            /\ log' = fetched.log
            /\ UNCHANGED flags

\* fetch_all_live_flags(project, base_url, cache, use_cache, override_cache)
CallFetchAllLiveFlags ==
    \E project \in Projects, use_cache \in BOOLEAN, override_cache \in BOOLEAN,
       response \in Responses, io_ok \in BOOLEAN :
        LET fetched == fetch_all_live_flags(data.api_key, data, project, use_cache,
                                            override_cache, response, io_ok)
        IN  /\ op = "none"
            /\ op' = "fetch_all_live_flags"
            /\ args' = FetchArgs(project, use_cache, override_cache, response, io_ok)
            /\ result' = fetched.result
            /\ data' = [data EXCEPT !.files = fetched.files]
            /\ log' = fetched.log
            /\ UNCHANGED flags

\* the values of --dir: a directory that exists and one that does not
Directories == {"repo", "/nonexistent/directory"}

\* what the walk of search_directory meets
Searches == {"nothing", "found", "OSError"}

\* ld-audit scan --project ... --dir ... --months ... --cache-ttl ...
\* [--no-cache] [--override-cache]
CallScan ==
    \E project \in Projects, directory \in Directories, months \in {0, MaxMonths},
       cache_ttl \in {1, MaxTtl}, no_cache \in BOOLEAN, override_cache \in BOOLEAN,
       response \in Responses, io_ok \in BOOLEAN, now \in Nows, search \in Searches :
        LET scanned == scan(data, project, directory, months, cache_ttl, no_cache,
                            override_cache, response, io_ok, now, search)
        IN  /\ op = "none"
            /\ op' = "scan"
            /\ args' = [project |-> project, directory |-> directory,
                        months |-> months, cache_ttl |-> cache_ttl,
                        enable_cache |-> ~no_cache, force_refresh |-> override_cache,
                        response |-> response, io_ok |-> io_ok, search |-> search]
            /\ result' = scanned.result
            /\ data' = [data EXCEPT !.files = scanned.files]
            /\ log' = scanned.log
            /\ UNCHANGED flags

NextFetch == CallGetAllFlags \/ CallFetchAllLiveFlags \/ CallScan

SpecFetch == InitFetch /\ [][NextFetch]_vars

\* the calls to the LaunchDarkly API among `calls`
Requests(calls) == Cardinality({i \in 1..Len(calls) : calls[i].op = "request"})

\* the file of the key holds a payload that has not expired
Reusable(key) ==
    /\ HasEntry(key)
    /\ "data" \in DOMAIN Entry_of(key)
    /\ data.clock - Get(Entry_of(key), "timestamp", JNumber(0)).number <= data.ttl_seconds

\* C22: get_all_flags sends no request and returns the cached payload when
\* the cache is enabled, no refresh is forced and the file of the project
\* holds a payload that has not expired; in every other case it sends
\* exactly one request, and returns the payload of a successful response.
C22_RequestIffNoReuse ==
    [][op' = "get_all_flags" =>
        IF args'.enable_cache /\ ~args'.force_refresh /\ Reusable(args'.project)
        THEN /\ Requests(log') = 0
             /\ result' = parse_flags_response(Entry_of(args'.project)["data"])
        ELSE /\ Requests(log') = 1
             /\ args'.response.status_code = Some(200)
                    => result' = parse_flags_response(args'.response.body)]_vars

\* C22 on the directories where no file holds anything but a JSON object:
\* there the fetch sends a request exactly when it cannot reuse the cache.
C22_OnObjectFiles ==
    [][(/\ op' = "get_all_flags"
        /\ \A f \in DOMAIN data.files :
              data.files[f].valid => data.files[f].doc.kind = "object") =>
        IF args'.enable_cache /\ ~args'.force_refresh /\ Reusable(args'.project)
        THEN /\ Requests(log') = 0
             /\ result' = parse_flags_response(Entry_of(args'.project)["data"])
        ELSE /\ Requests(log') = 1
             /\ args'.response.status_code = Some(200)
                    => result' = parse_flags_response(args'.response.body)]_vars

\* the two fetch operations
FetchOps == {"get_all_flags", "fetch_all_live_flags"}

\* the fetch that was called sent a request and the API answered 200
Fetched200 ==
    /\ op \in FetchOps
    /\ Requests(log) = 1
    /\ args.response.status_code = Some(200)

C23_WitnessForced ==
    /\ Fetched200
    /\ ~args.enable_cache /\ args.force_refresh /\ args.io_ok
    /\ get(data, args.project) = Return(Some(args.response.body))

C25_FailedRequestIsError ==
    [][(/\ op' \in FetchOps
        /\ Requests(log') = 1
        /\ args'.response.status_code /= Some(200)) =>
        /\ ~result'.ok
        /\ data'.files = data.files
        /\ (op' = "get_all_flags" =>
              result' = LaunchDarklyAPIError(args'.response.status_code))
        /\ (op' = "fetch_all_live_flags" => result' = Exit(1))]_vars

\* a 401 with an expired payload of the project in the cache
C25_Witness ==
    /\ op = "get_all_flags"
    /\ Requests(log) = 1
    /\ args.response.status_code = Some(401)
    /\ args.enable_cache /\ ~args.force_refresh
    /\ HasEntry(args.project) /\ "data" \in DOMAIN Entry_of(args.project)
    /\ result = LaunchDarklyAPIError(Some(401))

\* C26: scan with a --dir that is not an existing directory ends with exit
\* status 1 before anything else happens: no cache is constructed, read or
\* written, no request is sent, nothing is searched.
C26_InvalidDirectoryExitsFirst ==
    [][(op' = "scan" /\ args'.directory \notin data.directories) =>
        /\ result' = Exit(1)
        /\ exit_status(result') = 1
        /\ log' = <<>>
        /\ data' = data]_vars

\* a scan of a missing directory with the API key set, an answering API
\* and a cache file of the project on disk
C26_Witness ==
    /\ op = "scan"
    /\ args.directory \notin data.directories
    /\ data.api_key
    /\ args.response.status_code = Some(200)
    /\ get_cache_file(args.project) \in DOMAIN data.files
    /\ result = Exit(1)
    /\ log = <<>>

\* a scan of an existing directory that fetched, filtered and searched
C26_WitnessValid ==
    /\ op = "scan"
    /\ args.directory \in data.directories
    /\ Requests(log) = 1
    /\ \E i \in 1..Len(log) : log[i].op = "search_directory" /\ log[i].value /= Some(<<>>)
    /\ result = Return(None)

\* ---------------------------------------------------------------------
\* The five filters of FlagService applied one at a time, in any order
\* ---------------------------------------------------------------------

\* the stages of FlagService.get_inactive_flags
Stages == {"archived", "temporary", "inactivity", "maintainer", "exclude_list"}

\* one stage of get_inactive_flags with the arguments of the call; the
\* maintainer and exclude stages run only for a non-empty list
Stage(stage, list, months, maintainers, exclude_list, now) ==
    CASE stage = "archived" -> filter_by_archived(list, FALSE)
      [] stage = "temporary" -> filter_by_temporary(list, TRUE)
      [] stage = "inactivity" ->
            filter_by_inactivity(list, modified_before(now, months))
      [] stage = "maintainer" ->
            IF Truthy(maintainers)
            THEN filter_by_maintainer(list, maintainers[1])
            ELSE list
      [] stage = "exclude_list" ->
            IF Truthy(exclude_list)
            THEN filter_by_exclude_list(list, exclude_list[1])
            ELSE list

\* the flags of the lists: every combination of archived, temporary,
\* last modification and maintainer under the first key, four under the
\* second
PipelineFlags(k) ==
    {Flag(k, "", a, t, 0, Maintainer(m, None, None),
          <<Environment("production", FALSE, fromtimestamp_ms(lm))>>) :
        a \in BOOLEAN, t \in BOOLEAN, m \in FirstNames, lm \in LastModifiedMs}

SecondFlags ==
    {f \in PipelineFlags("flag-b") :
        f.maintainer.first_name = "Alice" /\ (f.archived => ~f.temporary)}
    \cup {Flag("flag-c", "", FALSE, TRUE, 0, Maintainer("Alice", None, None), <<>>)}

\* lists of up to two flags with distinct keys, in both orders
PipelineLists ==
    {<<>>}
    \cup {<<f>> : f \in PipelineFlags("flag-a")}
    \cup {<<f, g>> : f \in PipelineFlags("flag-a"), g \in SecondFlags}
    \cup {<<g, f>> : f \in PipelineFlags("flag-a"), g \in SecondFlags}

\* the arguments of the call; `done` holds the stages applied so far
InitPipeline ==
    /\ flags \in PipelineLists
    /\ \E months \in {0, MaxMonths}, maintainers \in {None, Some(<<"Alice">>)},
          exclude_list \in {None, Some(<<"flag-a">>)}, now \in Nows :
            args = [months |-> months, maintainers |-> maintainers,
                    exclude_list |-> exclude_list, now |-> now, done |-> {}]
    /\ data = NoData
    /\ op = "none"
    /\ result = flags
    /\ log = NoLog

\* result = FlagService.filter_by_<stage>(result, ...), for a stage that
\* has not run yet
ApplyStage ==
    \E stage \in Stages \ args.done :
        /\ op \notin {"get_inactive_flags", "get_inactive_flags again"}
        /\ op' = stage
        /\ result' = Stage(stage, result, args.months, args.maintainers,
                           args.exclude_list, args.now)
        /\ args' = [args EXCEPT !.done = args.done \cup {stage}]
        /\ UNCHANGED <<data, flags, log>>

\* FlagService.get_inactive_flags(flags, months, maintainers, exclude_list)
\* on the input list
CallGetInactiveFlagsOnce ==
    /\ op = "none"
    /\ op' = "get_inactive_flags"
    /\ result' = get_inactive_flags(flags, args.months, args.maintainers,
                                    args.exclude_list, args.now)
    /\ UNCHANGED <<data, flags, args, log>>

\* FlagService.get_inactive_flags on the list it returned, with the same
\* arguments and the same now
CallGetInactiveFlagsAgain ==
    /\ op = "get_inactive_flags"
    /\ op' = "get_inactive_flags again"
    /\ result' = get_inactive_flags(result, args.months, args.maintainers,
                                    args.exclude_list, args.now)
    /\ UNCHANGED <<data, flags, args, log>>

NextPipeline == ApplyStage \/ CallGetInactiveFlagsOnce \/ CallGetInactiveFlagsAgain

SpecPipeline == InitPipeline /\ [][NextPipeline]_vars

\* C27: the five stages applied in any order give the list that
\* get_inactive_flags gives, the retained flags in the same order.
C27_StagesCommute ==
    args.done = Stages =>
        result = get_inactive_flags(flags, args.months, args.maintainers,
                                    args.exclude_list, args.now)

\* all five stages ran, the archived stage last, on a list of two flags
\* of which one is retained and the first is archived and not temporary
C27_Witness ==
    /\ args.done = Stages
    /\ op = "archived"
    /\ Len(flags) = 2 /\ Len(result) = 1
    /\ flags[1].archived /\ ~flags[1].temporary
    /\ Truthy(args.maintainers) /\ Truthy(args.exclude_list)

\* s is t with some elements left out, the others in the order of t
IsSubSeq(s, t) ==
    \E pick \in [1..Len(s) -> 1..Len(t)] :
        /\ \A i \in 1..Len(s) : s[i] = t[pick[i]]
        /\ \A i, j \in 1..Len(s) : i < j => pick[i] < pick[j]

\* C29: every filter and get_inactive_flags leave the input list and its
\* flags as they were and return a sub-sequence of the list they were given
\* in its order; get_inactive_flags applied to its own result returns it.
C29_FiltersArePure ==
    [][/\ flags' = flags
       /\ (op' \in Stages => IsSubSeq(result', result))
       /\ (op' = "get_inactive_flags" => IsSubSeq(result', flags))
       /\ (op' = "get_inactive_flags again" => result' = result)]_vars

\* get_inactive_flags ran twice on a list of two flags and kept both, the
\* second call returning what the first did
C29_Witness ==
    /\ op = "get_inactive_flags again"
    /\ Len(flags) = 2 /\ Len(result) = 2
    /\ result = flags

\* a single filter dropped the first of two flags
C29_WitnessStage ==
    /\ op = "temporary" /\ args.done = {"temporary"}
    /\ Len(flags) = 2
    /\ result = <<flags[2]>>

\* ---------------------------------------------------------------------
\* The two revisions of the classifier on one payload
\* ---------------------------------------------------------------------

\* the environments of the payload's flags: none, production alone (off,
\* on, without `on`, without lastModified), production with dev in both
\* orders
SplitEnvironments ==
    {<<>>,
     <<Entry("production", [on |-> FALSE, lastModified |-> 4])>>,
     <<Entry("production", [on |-> TRUE, lastModified |-> 4])>>,
     <<Entry("production", [lastModified |-> 4])>>,
     <<Entry("production", [on |-> TRUE])>>,
     <<Entry("production", [on |-> TRUE, lastModified |-> 7])>>,
     <<Entry("production", [on |-> TRUE, lastModified |-> 4]),
       Entry("dev", [on |-> FALSE, lastModified |-> 4])>>,
     <<Entry("dev", [on |-> FALSE, lastModified |-> 4]),
       Entry("production", [on |-> TRUE, lastModified |-> 7])>>}

\* the flags of the payload: temporary live flags with a maintainer, and
\* one flag each that is archived, permanent, without maintainer, without
\* the `archived` member, without the `environments` member
SplitItems ==
    {[key |-> k, archived |-> FALSE, temporary |-> TRUE,
      _maintainer |-> [firstName |-> "Alice"], environments |-> e] :
        k \in FlagKeys, e \in SplitEnvironments}
    \cup {[key |-> k, archived |-> a, temporary |-> t, _maintainer |-> m,
           environments |-> <<Entry("production", [on |-> FALSE, lastModified |-> 4])>>] :
            k \in {"flag-b"}, a \in BOOLEAN, t \in BOOLEAN,
            m \in {EmptyDict, [firstName |-> "alice"]}}
    \cup {[key |-> "flag-b", temporary |-> TRUE,
           environments |-> <<Entry("production", [on |-> FALSE, lastModified |-> 4])>>],
          [key |-> "flag-b", archived |-> FALSE, temporary |-> TRUE]}

\* the payloads the fetch returns: up to MaxItems flags with distinct keys
SplitPayloads ==
    {[items |-> JList(l)] :
        l \in {fl \in SeqsUpTo(SplitItems, MaxItems) :
                 Injective([i \in 1..Len(fl) |-> fl[i].key])}}

EnvOrders == {<<"production", "staging", "dev">>, <<"dev">>}

\* the payload fetch_all_live_flags returned
InitSplit ==
    /\ data \in SplitPayloads
    /\ flags = <<>>
    /\ op = "none"
    /\ args = NoArgs
    /\ result = NoResult
    /\ log = NoLog

\* cli.get_inactive_flags(project, months, base_url, cache, env_order,
\* maintainers, exclude_list) on the payload
CallCliGetInactiveFlags ==
    \E months \in Months, env_order \in EnvOrders, maintainers \in MaintainerArgs,
       exclude_list \in ExcludeArgs, now \in Nows :
        /\ op = "none"
        /\ op' = "cli.get_inactive_flags"
        /\ args' = [months |-> months, env_order |-> env_order,
                    maintainers |-> maintainers, exclude_list |-> exclude_list,
                    now |-> now]
        /\ result' = cli_get_inactive_flags(data, months, env_order, maintainers,
                                            exclude_list, now)
        /\ UNCHANGED <<data, flags, log>>

\* the unified classifier on the same payload with the same arguments:
\* client._parse_flags_response, then FlagService.get_inactive_flags
service_get_inactive_flags(payload, months, maintainers, exclude_list, now) ==
    LET parsed == parse_flags_response(payload)
    IN  IF parsed.ok
        THEN Return(get_inactive_flags(parsed.value, months, maintainers,
                                       exclude_list, now))
        ELSE parsed

CallServiceGetInactiveFlags ==
    /\ op = "cli.get_inactive_flags"
    /\ op' = "FlagService.get_inactive_flags"
    /\ flags' = service_get_inactive_flags(data, args.months, args.maintainers,
                                           args.exclude_list, args.now)
    /\ UNCHANGED <<data, args, result, log>>

NextSplit == CallCliGetInactiveFlags \/ CallServiceGetInactiveFlags

SpecSplit == InitSplit /\ [][NextSplit]_vars

\* both revisions were run on the payload
CalledBoth == op = "FlagService.get_inactive_flags"

\* the keys of a list of payload dictionaries
RawKeys(items) == {items[i]["key"] : i \in 1..Len(items)}

\* C30: the OFF and ON lists of cli.get_inactive_flags are disjoint and
\* the keys of their union are the keys FlagService.get_inactive_flags
\* returns, for the same payload, months, maintainers, exclude list and now.
C30_SplitAgreesWithUnified ==
    (CalledBoth /\ result.ok /\ flags.ok) =>
        /\ RawKeys(result.value[1]) \cap RawKeys(result.value[2]) = {}
        /\ RawKeys(result.value[1]) \cup RawKeys(result.value[2])
              = Elems(Keys(flags.value))

\* C30 where both revisions return: the lists are disjoint and every key
\* of the split lists is a key of the unified list.
C30_SplitWithinUnified ==
    (CalledBoth /\ result.ok /\ flags.ok) =>
        /\ RawKeys(result.value[1]) \cap RawKeys(result.value[2]) = {}
        /\ RawKeys(result.value[1]) \cup RawKeys(result.value[2])
              \subseteq Elems(Keys(flags.value))

====
